---- MODULE Spec2Model ----
(***************************************************************************)
(* A model of the soham2710/mcp repository:                                *)
(*   - the Agent Service and its HTTP routes      (src/backend/main.py)    *)
(*   - the Resource Provisioner                   (src/backend/aws_setup.py)*)
(*                                                                         *)
(* Text is modelled as a sequence of tokens, so that joins, f-strings and  *)
(* truthiness tests ("if kb_context_text:") are computed as the code       *)
(* computes them.  An Optional[str] is a sequence of length 0 (None) or 1. *)
(* Message timestamps (datetime.now()) are never read by the code and are  *)
(* left out of the message records.                                        *)
(***************************************************************************)
EXTENDS Integers, Sequences, FiniteSets, TLC

VARIABLES
    knowledge_base_id,  \* AIAgentService.knowledge_base_id
    conversations,      \* AIAgentService.conversations: id -> list of messages
    last,               \* what the latest request did and answered (observation)
    deleted,            \* history: ids deleted and not re-created since
    cloud,              \* the provider's resources (S3, IAM, OpenSearch, Bedrock)
    pc,                 \* the external call setup_complete_system issues next
    frame,              \* the locals of the running setup_complete_system
    result,             \* what setup_complete_system returned
    calls,              \* history: the external calls issued by the current run
    runs,               \* history: how many runs of setup_complete_system started
    clock,              \* int(time.time()) of the latest run
    faulted,            \* history: steps of the current run hit by an unexpected error
    earlier,            \* history: identifiers returned to earlier runs
    failed_step,        \* history: the step of the current run that reported failure
    tasks,              \* the chat requests on the server's event loop
    running,            \* the request the event loop is running, if any
    bridge,             \* the Tool Bridge's latest tool invocation
    debug,              \* the latest request to a debug route (observation)
    harness             \* the run of the test harness

agentVars == <<knowledge_base_id, conversations, last, deleted>>

provVars == <<cloud, pc, frame, result, calls, runs, clock, faulted, earlier, failed_step>>

loopVars == <<tasks, running>>

debugVars == <<debug, harness>>

vars == <<knowledge_base_id, conversations, last, deleted,
          cloud, pc, frame, result, calls, runs, clock, faulted, earlier, failed_step,
          tasks, running, bridge, debug, harness>>

(***************************************************************************)
(* Bounds and input sets                                                   *)
(***************************************************************************)
\* A chat request is accepted by the model while the store holds fewer
\* messages than this.
MaxMsgs == 6
\* The retrieval endpoint returns at most this many passages.
MaxKB == 4

None == "None"

\* Conversation ids a client may send, and the ids uuid4 may produce.
ClientIds == {"c1"}
UuidIds == {"u1"}
ConvIds == ClientIds \cup UuidIds

UserMessages == {<<"m1">>}
ModelOutputs == {<<"r1">>}
RequestContexts == {<<>>, << <<>> >>, << <<"ctx">> >>}
RequestModes == {"explainer", "quizzer"}

\* Scores and thresholds in tenths: 7 stands for 0.7.
Scores == {5, 7, 9}
Thresholds == {5, 7, 8}

\* The ranked passages of the external knowledge index, as retrieve returns
\* them: 'content'.'text' and 'score' are optional keys of an item.
Passage(i) == [content |-> << <<"p", CASE i = 1 -> "1" [] i = 2 -> "2" [] i = 3 -> "3"
                                      [] i = 4 -> "4" [] i = 5 -> "5" [] OTHER -> "n">> >>,
               score |-> <<9>>]
EmptyPassage == [content |-> <<>>, score |-> <<>>]

(***************************************************************************)
(* Text helpers: Python's str.join and list slices                         *)
(***************************************************************************)
RECURSIVE JoinWith(_, _)
\* sep.join(parts)
JoinWith(parts, sep) ==
    IF parts = <<>> THEN <<>>
    ELSE IF Len(parts) = 1 THEN parts[1]
    ELSE parts[1] \o sep \o JoinWith(Tail(parts), sep)

\* s[-n:]
LastN(s, n) == IF Len(s) <= n THEN s ELSE SubSeq(s, Len(s) - n + 1, Len(s))
\* s[:n]
FirstN(s, n) == IF Len(s) <= n THEN s ELSE SubSeq(s, 1, n)
\* s[:-1]
ButLast(s) == IF s = <<>> THEN <<>> ELSE SubSeq(s, 1, Len(s) - 1)

(***************************************************************************)
(* The external endpoints (bedrock-runtime, bedrock-agent-runtime)         *)
(***************************************************************************)
\* What bedrock_runtime.invoke_model can answer: a ClientError or a text.
GenerationOutcomes ==
    {[error |-> TRUE, text |-> <<>>]} \cup {[error |-> FALSE, text |-> t] : t \in ModelOutputs}

\* What bedrock_agent_runtime.retrieve can answer when asked for n results:
\* a ClientError, or at most n passages in the index's ranking.
RetrieveOutcomes(n) ==
    {[error |-> TRUE, items |-> <<>>]}
    \cup {[error |-> FALSE, items |-> [i \in 1..k |-> Passage(i)]] :
            k \in 0..(IF n < MaxKB THEN n ELSE MaxKB)}
    \cup {[error |-> FALSE, items |-> <<EmptyPassage>>] : k \in (IF n >= 1 THEN {1} ELSE {})}

\* The same endpoint with every score on every passage.
ScoredRetrieveOutcomes(n) ==
    {[error |-> TRUE, items |-> <<>>]}
    \cup UNION {{[error |-> FALSE,
                  items |-> [i \in 1..k |-> [content |-> Passage(i).content,
                                             score |-> <<sc[i]>>]]] :
                    sc \in [1..k -> Scores]} :
                k \in 0..(IF n < MaxKB THEN n ELSE MaxKB)}
    \cup {[error |-> FALSE, items |-> <<EmptyPassage>>] : k \in (IF n >= 1 THEN {1} ELSE {})}

\* The answers of the generation endpoint to a first and a second call.
AnswerSequences ==
    {<<a, [error |-> FALSE, text |-> t]>> : a \in GenerationOutcomes, t \in ModelOutputs}

\* The retrieval endpoint's answer when no call reaches it.
NotAsked == [error |-> FALSE, items |-> <<>>]

(***************************************************************************)
(* AIAgentService                                                          *)
(***************************************************************************)
\* AGENT_PROMPTS[mode]: the fixed instruction text of a mode.
AGENT_PROMPTS(mode) == <<"AGENT_PROMPT", mode>>

\* A variant of invoke_bedrock_model that calls the endpoint a second time
\* after a ClientError.
invoke_bedrock_model_retry(prompt, answers) ==
    IF ~answers[1].error
    THEN [raised |-> FALSE, text |-> answers[1].text, calls |-> 1,
          status |-> 200, detail |-> ""]
    ELSE IF ~answers[2].error
    THEN [raised |-> FALSE, text |-> answers[2].text, calls |-> 2,
          status |-> 200, detail |-> ""]
    ELSE [raised |-> TRUE, text |-> <<>>, calls |-> 2,
          status |-> 500, detail |-> "Model invocation failed"]

\* invoke_bedrock_model: one call of the generation endpoint; a ClientError
\* becomes HTTPException(500).  answers[i] is what the endpoint would answer
\* to the i-th call of this request.
invoke_bedrock_model(prompt, answers) ==
    IF answers[1].error
    THEN [raised |-> TRUE, text |-> <<>>, calls |-> 1,
          status |-> 500, detail |-> "Model invocation failed"]
    ELSE [raised |-> FALSE, text |-> answers[1].text, calls |-> 1,
          status |-> 200, detail |-> ""]

\* One entry of results: item.get('content', {}).get('text', '') and
\* item.get('score', 0.0).
RetrievalResult(item) ==
    [content |-> IF item.content = <<>> THEN <<>> ELSE item.content[1],
     score |-> IF item.score = <<>> THEN 0 ELSE item.score[1]]

\* A variant of query_knowledge_base without the except clause: the
\* ClientError of the retrieval endpoint leaves the method.
query_knowledge_base_uncaught(kb_id, answer) ==
    IF kb_id = None
    THEN [results |-> <<>>, calls |-> 0, failed |-> FALSE, raised |-> FALSE]
    ELSE IF answer.error
    THEN [results |-> <<>>, calls |-> 1, failed |-> TRUE, raised |-> TRUE]
    ELSE [results |-> [i \in 1..Len(answer.items) |-> RetrievalResult(answer.items[i])],
          calls |-> 1, failed |-> FALSE, raised |-> FALSE]

\* AIAgentService.query_knowledge_base: [] without a call when no index is
\* configured, [] when the retrieval endpoint answers with a ClientError.
\* raised: an exception leaves the method (none does).
query_knowledge_base(kb_id, answer) ==
    IF kb_id = None
    THEN [results |-> <<>>, calls |-> 0, failed |-> FALSE, raised |-> FALSE]
    ELSE IF answer.error
    THEN [results |-> <<>>, calls |-> 1, failed |-> TRUE, raised |-> FALSE]
    ELSE [results |-> [i \in 1..Len(answer.items) |-> RetrievalResult(answer.items[i])],
          calls |-> 1, failed |-> FALSE, raised |-> FALSE]

\* request.conversation_id or str(uuid.uuid4())
ResolveConversationId(request_id, uuid) ==
    IF request_id = None \/ request_id = "" THEN uuid ELSE request_id

\* A variant of kb_context_text that joins every retrieved passage.
kb_context_text_all(kb_context) ==
    JoinWith([i \in 1..Len(kb_context) |-> kb_context[i].content], <<"\n">>)

\* "\n".join([item['content'] for item in kb_context[:3]])
kb_context_text(kb_context) ==
    LET top == FirstN(kb_context, 3)
    IN JoinWith([i \in 1..Len(top) |-> top[i].content], <<"\n">>)

\* A variant of recent_messages with a window of 4.
recent_messages_window4(history) == LastN(history, 4)

\* self.conversations[conversation_id][-5:]
recent_messages(history) == LastN(history, 5)

\* The "role: content" lines of recent_messages[:-1], joined by "\n".
conversation_history(recent) ==
    LET shown == ButLast(recent)
    IN JoinWith([i \in 1..Len(shown) |-> <<shown[i].role, ": ">> \o shown[i].content],
                <<"\n">>)

\* A variant of prompt_parts that puts the conversation history before the
\* caller's context.
prompt_parts_history_first(mode, message, context, kb_context, history) ==
    LET kb_text == kb_context_text(kb_context)
        recent == recent_messages(history)
    IN  <<AGENT_PROMPTS(mode)>>
        \o (IF kb_text # <<>>
            THEN << <<"Relevant knowledge base context:", "\n">> \o kb_text >>
            ELSE <<>>)
        \o (IF Len(recent) > 1
            THEN << <<"Conversation history:", "\n">> \o conversation_history(recent) >>
            ELSE <<>>)
        \o (IF context # <<>> /\ context[1] # <<>>
            THEN << <<"Additional context:", "\n">> \o context[1] >>
            ELSE <<>>)
        \o << <<"User query: ">> \o message >>
        \o << <<"Respond as a ", mode, ":">> >>

\* prompt_parts as built by process_chat from the history that already holds
\* the current user turn.
prompt_parts(mode, message, context, kb_context, history) ==
    LET kb_text == kb_context_text(kb_context)
        recent == recent_messages(history)
    IN  <<AGENT_PROMPTS(mode)>>
        \o (IF kb_text # <<>>
            THEN << <<"Relevant knowledge base context:", "\n">> \o kb_text >>
            ELSE <<>>)
        \o (IF context # <<>> /\ context[1] # <<>>
            THEN << <<"Additional context:", "\n">> \o context[1] >>
            ELSE <<>>)
        \o (IF Len(recent) > 1
            THEN << <<"Conversation history:", "\n">> \o conversation_history(recent) >>
            ELSE <<>>)
        \o << <<"User query: ">> \o message >>
        \o << <<"Respond as a ", mode, ":">> >>

\* "\n\n".join(prompt_parts)
full_prompt(parts) == JoinWith(parts, <<"\n\n">>)

\* The observation record of a request: the HTTP answer (status, detail and
\* the body's fields) and what the handler did on the way (calls issued,
\* prompt built).
NoRequest ==
    [op |-> "none", status |-> 0, detail |-> "",
     request_id |-> None,
     conversation_id |-> None, agent_mode |-> None, response |-> <<>>,
     kb_results_count |-> 0, conversation_length |-> 0, messages |-> <<>>,
     message |-> <<>>, context |-> <<>>, prompt_parts |-> <<>>,
     results |-> <<>>, total_results |-> 0, filtered_results |-> 0,
     generate_calls |-> 0, generate_failed |-> FALSE,
     retrieve_calls |-> 0, retrieve_failed |-> FALSE,
     kb_returned |-> <<>>, threshold |-> 0]

RECURSIVE StoredMessages(_, _)
\* The number of messages held under the ids of S.
StoredMessages(store, S) ==
    IF S = {} THEN 0
    ELSE LET c == CHOOSE x \in S : TRUE
         IN Len(store[c]) + StoredMessages(store, S \ {c})

UserTurn(message) == [role |-> "user", content |-> message]
AssistantTurn(text) == [role |-> "assistant", content |-> text]

\* A variant of the metadata that measures the conversation before the
\* assistant turn is appended.
chat_metadata_early(kb_context, history) ==
    [kb_results_count |-> Len(kb_context), conversation_length |-> Len(history) - 1]

\* metadata={"kb_results_count": len(kb_context),
\*           "conversation_length": len(self.conversations[conversation_id])}
chat_metadata(kb_context, history) ==
    [kb_results_count |-> Len(kb_context), conversation_length |-> Len(history)]

\* A variant of the lookup in which an id that is not stored starts from the
\* history of a conversation that is.
stored_history_shared(store, conversation_id) ==
    IF conversation_id \in DOMAIN store THEN store[conversation_id]
    ELSE IF DOMAIN store = {} THEN <<>>
    ELSE store[CHOOSE c \in DOMAIN store : TRUE]

\* if conversation_id not in self.conversations:
\*     self.conversations[conversation_id] = []
stored_history(store, conversation_id) ==
    IF conversation_id \in DOMAIN store THEN store[conversation_id] ELSE <<>>

\* A variant of the append that keeps a window of the two newest turns.
append_turn_window(history, turn) == LastN(Append(history, turn), 2)

\* self.conversations[conversation_id].append({...})
append_turn(history, turn) == Append(history, turn)

\* AIAgentService.process_chat behind POST /chat, run to completion.
process_chat(request_id, message, mode, context, uuid, retrieved, answers) ==
    LET conversation_id == ResolveConversationId(request_id, uuid)
        before == stored_history(conversations, conversation_id)
        history == append_turn(before, UserTurn(message))
        kb == query_knowledge_base(knowledge_base_id, retrieved)
        parts == prompt_parts(mode, message, context, kb.results, history)
        model == invoke_bedrock_model(full_prompt(parts), answers)
        seen == [NoRequest EXCEPT
                    !.op = "chat", !.request_id = request_id,
                    !.conversation_id = conversation_id,
                    !.message = message, !.context = context, !.prompt_parts = parts,
                    !.generate_calls = model.calls, !.retrieve_calls = kb.calls,
                    !.generate_failed = answers[1].error,
                    !.retrieve_failed = (knowledge_base_id # None /\ retrieved.error),
                    !.kb_returned = kb.results]
    IN  /\ deleted' = deleted \ {conversation_id}
        /\ UNCHANGED <<knowledge_base_id, provVars, loopVars, bridge, debugVars>>
        /\ IF kb.raised
           THEN /\ conversations' = (conversation_id :> history) @@ conversations
                /\ last' = [seen EXCEPT !.status = 500, !.detail = "Internal Server Error",
                                        !.prompt_parts = <<>>, !.generate_calls = 0,
                                        !.generate_failed = FALSE]
           ELSE IF model.raised
           THEN /\ conversations' = (conversation_id :> history) @@ conversations
                /\ last' = [seen EXCEPT !.status = model.status, !.detail = model.detail]
           ELSE LET full == append_turn(history, AssistantTurn(model.text))
                    metadata == chat_metadata(kb.results, full)
                IN /\ conversations' = (conversation_id :> full) @@ conversations
                   /\ last' = [seen EXCEPT
                                 !.status = 200, !.response = model.text,
                                 !.agent_mode = mode,
                                 !.kb_results_count = metadata.kb_results_count,
                                 !.conversation_length = metadata.conversation_length]

\* POST /chat with every input a client and the two endpoints can supply.
Chat ==
    /\ StoredMessages(conversations, DOMAIN conversations) < MaxMsgs
    /\ \E request_id \in {None} \cup ConvIds, message \in UserMessages,
          mode \in RequestModes, context \in RequestContexts,
          retrieved \in IF knowledge_base_id = None
                        THEN {NotAsked} ELSE RetrieveOutcomes(5),
          answers \in AnswerSequences :
         IF request_id \in {None, ""}
         THEN \E uuid \in UuidIds \ DOMAIN conversations :
                process_chat(request_id, message, mode, context, uuid, retrieved, answers)
         ELSE process_chat(request_id, message, mode, context, None, retrieved, answers)

\* POST /chat in the explainer mode without caller context, while the store
\* holds fewer than MaxPlainMsgs messages.
MaxPlainMsgs == 3

PlainChat ==
    /\ StoredMessages(conversations, DOMAIN conversations) < MaxPlainMsgs
    /\ \E request_id \in {None} \cup ConvIds, message \in UserMessages,
          retrieved \in IF knowledge_base_id = None
                        THEN {NotAsked} ELSE RetrieveOutcomes(5),
          answers \in AnswerSequences :
         IF request_id \in {None, ""}
         THEN \E uuid \in UuidIds \ DOMAIN conversations :
                process_chat(request_id, message, "explainer", <<>>, uuid, retrieved, answers)
         ELSE process_chat(request_id, message, "explainer", <<>>, None, retrieved, answers)

\* A variant of get_conversation that answers an unknown id with an empty
\* history (conversations.get(conversation_id, [])).
get_conversation_lenient(conversation_id) ==
    /\ last' = [NoRequest EXCEPT !.op = "get", !.conversation_id = conversation_id,
                                 !.status = 200,
                                 !.messages = IF conversation_id \in DOMAIN conversations
                                              THEN conversations[conversation_id]
                                              ELSE <<>>]
    /\ UNCHANGED <<knowledge_base_id, conversations, deleted, provVars, loopVars, bridge, debugVars>>

\* GET /conversations/{conversation_id}
get_conversation(conversation_id) ==
    /\ IF conversation_id \notin DOMAIN conversations
       THEN last' = [NoRequest EXCEPT !.op = "get", !.conversation_id = conversation_id,
                                      !.status = 404, !.detail = "Conversation not found"]
       ELSE last' = [NoRequest EXCEPT !.op = "get", !.conversation_id = conversation_id,
                                      !.status = 200,
                                      !.messages = conversations[conversation_id]]
    /\ UNCHANGED <<knowledge_base_id, conversations, deleted, provVars, loopVars, bridge, debugVars>>

\* A variant of delete_conversation that drops every conversation
\* (conversations.clear()).
delete_conversation_clear(conversation_id) ==
    IF conversation_id \notin DOMAIN conversations
    THEN /\ last' = [NoRequest EXCEPT !.op = "delete", !.conversation_id = conversation_id,
                                      !.status = 404, !.detail = "Conversation not found"]
         /\ UNCHANGED <<knowledge_base_id, conversations, deleted, provVars, loopVars, bridge, debugVars>>
    ELSE /\ conversations' = <<>>
         /\ last' = [NoRequest EXCEPT !.op = "delete", !.conversation_id = conversation_id,
                                      !.status = 200,
                                      !.detail = "Conversation deleted successfully"]
         /\ deleted' = deleted \cup {conversation_id}
         /\ UNCHANGED <<knowledge_base_id, provVars, loopVars, bridge, debugVars>>

\* DELETE /conversations/{conversation_id}
delete_conversation(conversation_id) ==
    IF conversation_id \notin DOMAIN conversations
    THEN /\ last' = [NoRequest EXCEPT !.op = "delete", !.conversation_id = conversation_id,
                                      !.status = 404, !.detail = "Conversation not found"]
         /\ UNCHANGED <<knowledge_base_id, conversations, deleted, provVars, loopVars, bridge, debugVars>>
    ELSE /\ conversations' = [c \in DOMAIN conversations \ {conversation_id} |->
                                conversations[c]]
         /\ last' = [NoRequest EXCEPT !.op = "delete", !.conversation_id = conversation_id,
                                      !.status = 200,
                                      !.detail = "Conversation deleted successfully"]
         /\ deleted' = deleted \cup {conversation_id}
         /\ UNCHANGED <<knowledge_base_id, provVars, loopVars, bridge, debugVars>>

\* A variant of FilterByConfidence that drops a score equal to the threshold.
FilterByConfidence_strict(results, confidence_threshold) ==
    SelectSeq(results, LAMBDA entry : entry.score > confidence_threshold)

\* [result for result in results if result['score'] >= confidence_threshold]
FilterByConfidence(results, confidence_threshold) ==
    SelectSeq(results, LAMBDA entry : entry.score >= confidence_threshold)

\* POST /knowledge-base/query
query_knowledge_base_route(max_results, confidence_threshold, retrieved) ==
    LET kb == query_knowledge_base(knowledge_base_id, retrieved)
        filtered_results == FilterByConfidence(kb.results, confidence_threshold)
    IN  /\ last' = [NoRequest EXCEPT
                      !.op = "kb_query", !.status = 200,
                      !.results = filtered_results,
                      !.total_results = Len(kb.results),
                      !.filtered_results = Len(filtered_results),
                      !.retrieve_calls = kb.calls,
                      !.retrieve_failed = (knowledge_base_id # None /\ retrieved.error),
                      !.kb_returned = kb.results,
                      !.threshold = confidence_threshold]
        /\ UNCHANGED <<knowledge_base_id, conversations, deleted, provVars, loopVars, bridge, debugVars>>

\* The route with every request and every answer of the retrieval endpoint.
QueryKnowledgeBase ==
    \E max_results \in 0..MaxKB, confidence_threshold \in Thresholds :
      \E retrieved \in IF knowledge_base_id = None
                       THEN {NotAsked} ELSE ScoredRetrieveOutcomes(max_results) :
        query_knowledge_base_route(max_results, confidence_threshold, retrieved)

\* The requests of the summarize and quiz routes.  max_length is an
\* Optional[int]: unset, 0 or a number of words.
SummaryTexts == {<<"text">>}
SummaryTypes == {"brief", "detailed", "bullet_points"}
MaxLengths == {<<>>, <<0>>, <<100>>}
QuizTopics == {<<"topic">>}
Difficulties == {"easy", "medium", "hard"}
NumQuestions == {1, 5}
QuestionTypes == {"multiple_choice", "true_false", "short_answer"}

\* The prompt of create_summary.
summary_prompt(text, summary_type, max_length) ==
    AGENT_PROMPTS("summarizer") \o <<"\n\n">>
    \o <<"Text to summarize:", "\n">> \o text \o <<"\n\n">>
    \o <<"Summary type: ", summary_type, "\n">>
    \o (IF max_length # <<>> /\ max_length[1] # 0
        THEN <<"Maximum length: approximately ", ToString(max_length[1]), " words", "\n">>
        ELSE <<>>)
    \o <<"Please provide the summary:">>

\* The prompt of create_quiz.
quiz_prompt(topic, difficulty, num_questions, question_type) ==
    AGENT_PROMPTS("quizzer") \o <<"\n\n">>
    \o <<"Topic: ">> \o topic \o <<"\n">>
    \o <<"Difficulty: ", difficulty, "\n">>
    \o <<"Number of questions: ", ToString(num_questions), "\n">>
    \o <<"Question type: ", question_type, "\n\n">>
    \o <<"Please create the quiz in a structured format">>

\* A variant of the summarize route that files the request and the summary
\* as a conversation.
summarize_recorded(text, summary_type, max_length, answers) ==
    LET prompt == summary_prompt(text, summary_type, max_length)
        model == invoke_bedrock_model(prompt, answers)
    IN  /\ last' = [NoRequest EXCEPT
                      !.op = "summarize", !.message = text, !.prompt_parts = <<prompt>>,
                      !.generate_calls = model.calls,
                      !.generate_failed = answers[1].error,
                      !.status = model.status, !.detail = model.detail,
                      !.response = model.text,
                      !.agent_mode = IF model.raised THEN None ELSE summary_type]
        /\ conversations' = ("summary" :> <<UserTurn(text)>>) @@ conversations
        /\ UNCHANGED <<knowledge_base_id, deleted, provVars, loopVars, bridge, debugVars>>

\* POST /summarize: create_summary, then {"summary", "summary_type"}.
summarize(text, summary_type, max_length, answers) ==
    LET prompt == summary_prompt(text, summary_type, max_length)
        model == invoke_bedrock_model(prompt, answers)
    IN  /\ last' = [NoRequest EXCEPT
                      !.op = "summarize", !.message = text, !.prompt_parts = <<prompt>>,
                      !.generate_calls = model.calls,
                      !.generate_failed = answers[1].error,
                      !.status = model.status, !.detail = model.detail,
                      !.response = model.text,
                      !.agent_mode = IF model.raised THEN None ELSE summary_type]
        /\ UNCHANGED <<knowledge_base_id, conversations, deleted, provVars, loopVars, bridge, debugVars>>

\* POST /quiz: create_quiz, which returns the quiz content with the request's
\* fields.
create_quiz(topic, difficulty, num_questions, question_type, answers) ==
    LET prompt == quiz_prompt(topic, difficulty, num_questions, question_type)
        model == invoke_bedrock_model(prompt, answers)
    IN  /\ last' = [NoRequest EXCEPT
                      !.op = "quiz", !.message = topic, !.prompt_parts = <<prompt>>,
                      !.generate_calls = model.calls,
                      !.generate_failed = answers[1].error,
                      !.status = model.status, !.detail = model.detail,
                      !.response = model.text,
                      !.agent_mode = IF model.raised THEN None ELSE difficulty]
        /\ UNCHANGED <<knowledge_base_id, conversations, deleted, provVars, loopVars, bridge, debugVars>>

Summarize ==
    \E text \in SummaryTexts, summary_type \in SummaryTypes, max_length \in MaxLengths,
       answers \in AnswerSequences :
        summarize(text, summary_type, max_length, answers)

Quiz ==
    \E topic \in QuizTopics, difficulty \in Difficulties, num_questions \in NumQuestions,
       question_type \in QuestionTypes, answers \in AnswerSequences :
        create_quiz(topic, difficulty, num_questions, question_type, answers)

\* The query route asked about an index whose passages all score 0.9.
QueryRankedKnowledgeBase ==
    \E max_results \in 0..MaxKB, confidence_threshold \in Thresholds :
      \E retrieved \in IF knowledge_base_id = None
                       THEN {NotAsked} ELSE RetrieveOutcomes(max_results) :
        query_knowledge_base_route(max_results, confidence_threshold, retrieved)

GetConversation == \E conversation_id \in ConvIds : get_conversation(conversation_id)

DeleteConversation == \E conversation_id \in ConvIds : delete_conversation(conversation_id)

(***************************************************************************)
(* The routes as tasks of the server's event loop (uvicorn.run(app): one   *)
(* process, one loop).  A handler runs from one suspension point to the    *)
(* next; the loop starts or resumes a task only while no task is running.  *)
(***************************************************************************)
\* The chat requests in flight at the same time, and what each one sends.
Tasks == {"t1", "t2"}
TaskMessage(t) == IF t = "t1" THEN <<"m1">> ELSE <<"m2">>

\* pc: the await the request has reached; overlapped: the requests that were
\* between their first and their last statement while this one ran.
NoTask ==
    [pc |-> "idle", conversation_id |-> None, message |-> <<>>, mode |-> None,
     prompt_parts |-> <<>>, status |-> 0, key_error |-> FALSE, overlapped |-> {}]

InFlight(t) == tasks[t].pc \in {"retrieve", "generate"}

\* A variant in which every await hands control back to the event loop.
await_yields_always(callee) == TRUE

\* Whether "await self.<callee>(...)" suspends the request: the awaited
\* coroutines (invoke_bedrock_model, query_knowledge_base) call boto3, which
\* blocks, and await nothing themselves, so they run to their return.
await_yields(callee) == FALSE

\* process_chat up to "await self.query_knowledge_base": the id is resolved,
\* the conversation initialised and the user turn appended.
chat_begin(t, request_id) ==
    /\ running = None
    /\ tasks[t].pc = "idle"
    /\ \E mode \in RequestModes, uuid \in UuidIds :
         LET conversation_id == ResolveConversationId(request_id, uuid)
             before == stored_history(conversations, conversation_id)
         IN /\ request_id = None => uuid \notin DOMAIN conversations
            /\ conversations' =
                 (conversation_id :> append_turn(before, UserTurn(TaskMessage(t)))) @@ conversations
            /\ tasks' = [tasks EXCEPT ![t] =
                           [NoTask EXCEPT !.pc = "retrieve",
                                          !.conversation_id = conversation_id,
                                          !.message = TaskMessage(t), !.mode = mode,
                                          !.overlapped = {o \in Tasks : InFlight(o)}]]
    /\ running' = IF await_yields("query_knowledge_base") THEN None ELSE t
    /\ UNCHANGED <<knowledge_base_id, last, deleted, provVars, bridge, debugVars>>

\* process_chat from the answer of query_knowledge_base up to
\* "await self.invoke_bedrock_model": the prompt is built from the stored
\* history; self.conversations[conversation_id] raises KeyError when the id
\* is gone.
chat_retrieve(t) ==
    /\ running \in {t, None}
    /\ tasks[t].pc = "retrieve"
    /\ \E retrieved \in IF knowledge_base_id = None
                         THEN {NotAsked} ELSE RetrieveOutcomes(5) :
         LET kb == query_knowledge_base(knowledge_base_id, retrieved)
             cid == tasks[t].conversation_id
             others == tasks[t].overlapped \cup {o \in Tasks \ {t} : InFlight(o)}
         IN IF cid \notin DOMAIN conversations
            THEN /\ tasks' = [tasks EXCEPT ![t].pc = "done", ![t].status = 500,
                                           ![t].key_error = TRUE,
                                           ![t].overlapped = others]
                 /\ running' = None
            ELSE /\ tasks' = [tasks EXCEPT
                                ![t].pc = "generate",
                                ![t].prompt_parts =
                                    prompt_parts(tasks[t].mode, tasks[t].message, <<>>,
                                                 kb.results, conversations[cid]),
                                ![t].overlapped = others]
                 /\ running' = IF await_yields("invoke_bedrock_model") THEN None ELSE t
    /\ UNCHANGED <<knowledge_base_id, conversations, last, deleted, provVars, bridge, debugVars>>

\* process_chat from the answer of invoke_bedrock_model to its return: the
\* HTTPException(500) of a failed generation, or the assistant turn appended
\* and the response built (KeyError when the id is gone).
chat_generate(t) ==
    /\ running \in {t, None}
    /\ tasks[t].pc = "generate"
    /\ \E answers \in AnswerSequences :
         LET model == invoke_bedrock_model(full_prompt(tasks[t].prompt_parts), answers)
             cid == tasks[t].conversation_id
         IN IF model.raised
            THEN /\ tasks' = [tasks EXCEPT ![t].pc = "done", ![t].status = model.status]
                 /\ UNCHANGED conversations
            ELSE IF cid \notin DOMAIN conversations
            THEN /\ tasks' = [tasks EXCEPT ![t].pc = "done", ![t].status = 500,
                                           ![t].key_error = TRUE]
                 /\ UNCHANGED conversations
            ELSE /\ tasks' = [tasks EXCEPT ![t].pc = "done", ![t].status = 200]
                 /\ conversations' =
                      [conversations EXCEPT ![cid] = append_turn(@, AssistantTurn(model.text))]
    /\ running' = None
    /\ UNCHANGED <<knowledge_base_id, last, deleted, provVars, bridge, debugVars>>

\* A delete or a get request taken up by the event loop: the handlers await
\* nothing.
loop_delete_conversation ==
    /\ running = None
    /\ \E t \in Tasks : tasks[t].pc # "idle"
    /\ DeleteConversation

loop_get_conversation ==
    /\ running = None
    /\ \E t \in Tasks : tasks[t].pc # "idle"
    /\ GetConversation

(***************************************************************************)
(* The Tool Bridge (src/mcp_server/main.py).  The HTTP Facade is another   *)
(* process: its reply to a request is drawn from what a facade, or the     *)
(* network before it, can answer.                                          *)
(***************************************************************************)
\* A 2xx reply with the expected body, a 2xx reply with another body, a 4xx
\* or 5xx reply (raise_for_status raises HTTPStatusError), no reply at all
\* (a connection error or the 30 s timeout, both httpx.HTTPError).
FacadeReplies == {"ok", "malformed", "404", "500", "no_reply"}

NoTool == [tool |-> None, requests |-> <<>>, arguments |-> <<>>, reply |-> None,
           output |-> None, opening |-> ""]

\* A variant of the HTTP client that sends a request again when no reply came.
http_request_retry(method, path, reply) ==
    IF reply = "no_reply" THEN << <<method, path>>, <<method, path>> >>
    ELSE << <<method, path>> >>

\* await http_client.post(...) / http_client.get(...): the requests sent.
http_request(method, path, reply) == << <<method, path>> >>

\* What a tool returns after "try: request, raise_for_status, json, render;
\* except httpx.HTTPError: text; except Exception: text".
render_reply(reply, opening, error_opening) ==
    CASE reply = "ok" -> [output |-> "text", opening |-> opening]
      [] reply = "malformed" -> [output |-> "text", opening |-> "Unexpected error"]
      [] OTHER -> [output |-> "text", opening |-> error_opening]

\* One invocation of a tool that sends one request and renders its reply.
call_tool(tool, arguments, method, path, reply, rendered) ==
    /\ bridge' = [tool |-> tool, requests |-> http_request(method, path, reply),
                  arguments |-> arguments, reply |-> reply,
                  output |-> rendered.output, opening |-> rendered.opening]
    /\ UNCHANGED <<agentVars, provVars, loopVars, debugVars>>

chat_with_agent ==
    \E agent_mode \in RequestModes, conversation_id \in {None} \cup ClientIds,
       context \in {None, "ctx"}, reply \in FacadeReplies :
        call_tool("chat_with_agent", <<agent_mode, conversation_id, context>>,
                  "POST", "/chat", reply,
                  render_reply(reply, "**Agent Mode:**", "Error communicating with AI agent"))

summarize_text ==
    \E summary_type \in SummaryTypes, max_length \in MaxLengths, reply \in FacadeReplies :
        call_tool("summarize_text",
                  <<summary_type>> \o (IF max_length # <<>> /\ max_length[1] # 0
                                       THEN <<"max_length">> ELSE <<>>),
                  "POST", "/summarize", reply,
                  render_reply(reply, "**Summary Type:**", "Error generating summary"))

tool_create_quiz ==
    \E difficulty \in Difficulties, question_type \in QuestionTypes,
       reply \in FacadeReplies :
        call_tool("create_quiz", <<difficulty, question_type>>, "POST", "/quiz", reply,
                  render_reply(reply, "**Quiz Topic:**", "Error creating quiz"))

tool_query_knowledge_base ==
    \E max_results \in 0..MaxKB, reply \in FacadeReplies :
        call_tool("query_knowledge_base", <<ToString(max_results)>>,
                  "POST", "/knowledge-base/query", reply,
                  render_reply(reply, "**Knowledge Base Query:**",
                               "Error querying knowledge base"))

\* get_conversation reads e.response in its except clause: an HTTPStatusError
\* carries the reply, and the tool returns one of its two error texts; an
\* error without a reply may carry no such attribute, and then the tool
\* either returns the error text or ends with that exception.
tool_get_conversation ==
    \E conversation_id \in ConvIds, reply \in FacadeReplies :
      \E rendered \in
            IF reply = "404"
            THEN {[output |-> "text", opening |-> "Conversation not found"],
                  [output |-> "text", opening |-> "Error retrieving conversation"]}
            ELSE IF reply = "no_reply"
            THEN {[output |-> "text", opening |-> "Error retrieving conversation"],
                  [output |-> "raised", opening |-> "AttributeError"]}
            ELSE {render_reply(reply, "**Conversation ID:**",
                               "Error retrieving conversation")} :
        call_tool("get_conversation", <<conversation_id>>, "GET",
                  "/conversations/{conversation_id}", reply, rendered)

\* list_agent_modes returns a fixed text: it sends nothing.
list_agent_modes ==
    /\ bridge' = [NoTool EXCEPT !.tool = "list_agent_modes", !.output = "text",
                                !.opening = "**Available AI Agent Modes:**"]
    /\ UNCHANGED <<agentVars, provVars, loopVars, debugVars>>

check_system_health ==
    \E reply \in FacadeReplies :
        call_tool("check_system_health", <<>>, "GET", "/health", reply,
                  IF reply = "malformed"
                  THEN [output |-> "text", opening |-> "**System Health Check:**"]
                  ELSE render_reply(reply, "**System Health Check:**",
                                    "Cannot connect to AI Agent backend"))

(***************************************************************************)
(* BedrockKnowledgeBaseSetup: the Resource Provisioner.                    *)
(* setup_complete_system runs one external call per action; the provider   *)
(* answers each call with success, with the "already exists" error of the  *)
(* call, or with another ClientError.                                      *)
(***************************************************************************)
\* Runs of setup_complete_system the model starts.
MaxRuns == 2
\* Values int(time.time()) takes.
MaxClock == 2
\* Polls one polling loop issues while the resource is not ready.
MaxPolls == 2
\* len(sample_docs)
SampleDocs == 3

\* The policies create_iam_role_for_bedrock attaches, in order.
ManagedPolicies == <<"AmazonS3ReadOnlyAccess", "AmazonBedrockFullAccess">>
InlinePolicy == "OpenSearchServerlessAccess"

\* The identifiers the provider hands out for project 'ai-agent'.
RoleArn == "arn:aws:iam::role/ai-agent-bedrock-role"
CollectionArn == "arn:aws:aoss::collection/ai-agent-kb-collection"
CollectionName == "ai-agent-kb-collection"
KbId == "kb-1"
DataSourceId == "ds-1"

\* The plan step an external call belongs to.
StepOf(call) ==
    CASE call = "create_bucket" -> 1
      [] call \in {"create_role", "attach_role_policy", "put_role_policy", "get_role"} -> 2
      [] call \in {"create_security_policy_encryption", "create_security_policy_network",
                   "create_collection", "list_collections"} -> 3
      [] call = "put_object" -> 4
      [] call \in {"create_knowledge_base", "create_data_source"} -> 5
      [] call \in {"start_ingestion_job", "get_ingestion_job"} -> 6

NoCloud ==
    [buckets |-> {}, objects |-> {}, role |-> FALSE, role_policies |-> {},
     security_policies |-> {}, collection |-> "absent",
     knowledge_base |-> FALSE, data_source |-> FALSE, ingestion_job |-> "none"]

\* The locals of setup_complete_system and of the method it is in; returned
\* names the methods that have returned to it, collection_status is the status
\* the latest list_collections showed, ingestion_statuses are the printed
\* "Ingestion status: ..." lines.
NoFrame ==
    [bucket_name |-> 0, bucket_created |-> FALSE, role_arn |-> None,
     collection_arn |-> None, kb_id |-> None, data_source_id |-> None,
     current_status |-> None, policy |-> 1, doc |-> 1, polls |-> 0, returned |-> {},
     collection_status |-> None, ingestion_statuses |-> <<>>]

NoResult ==
    [kind |-> "pending", knowledge_base_id |-> None, data_source_id |-> None,
     bucket_name |-> 0, collection_name |-> None, role_arn |-> None]
ReturnedNone == [NoResult EXCEPT !.kind = "None"]
Raised == [NoResult EXCEPT !.kind = "raised"]

\* Whether the provider already holds the resource the call would create.
AlreadyExists(call) ==
    CASE call = "create_bucket" -> frame.bucket_name \in cloud.buckets
      [] call = "create_role" -> cloud.role
      [] call = "create_security_policy_encryption" -> "encryption" \in cloud.security_policies
      [] call = "create_security_policy_network" -> "network" \in cloud.security_policies
      [] call = "create_collection" -> cloud.collection # "absent"
      [] call = "create_knowledge_base" -> cloud.knowledge_base
      [] call = "create_data_source" -> cloud.data_source
      [] OTHER -> FALSE

\* The provider's answers to a call: "ClientError" is an unexpected error;
\* the named errors are the provider's "already exists" answers.  S3 answers
\* a repeated create_bucket of the owner with success (us-east-1) or with
\* BucketAlreadyOwnedByYou (the other regions).
Answers(call) ==
    {"ClientError"} \cup
    (IF ~AlreadyExists(call) THEN {"OK"}
     ELSE CASE call = "create_bucket" -> {"OK", "BucketAlreadyOwnedByYou"}
            [] call = "create_role" -> {"EntityAlreadyExists"}
            [] OTHER -> {"ConflictException"})

\* if not self.create_s3_bucket(bucket_name): return None
after_create_s3_bucket(created) ==
    IF ~created THEN "done" ELSE "create_role"

\* A variant of the role check that goes on without a role.
after_create_iam_role_unchecked(role_arn) == "create_security_policy_encryption"

\* if not role_arn: return None
after_create_iam_role(role_arn) ==
    IF role_arn = None THEN "done" ELSE "create_security_policy_encryption"

\* if not collection_arn: return None
after_create_collection(collection_arn) ==
    IF collection_arn = None THEN "done" ELSE "put_object"

\* if not kb_id: return None
after_create_knowledge_base(kb_id) ==
    IF kb_id = None THEN "done" ELSE "start_ingestion_job"

\* A variant of the polling loops that gives up after MaxPolls - 1 polls.
keep_waiting_bounded(polls) == polls + 1 < MaxPolls

\* "while True:" of both polling loops: no timeout, no maximum of attempts.
keep_waiting(polls) == TRUE

\* A variant of the collection loop's exit test that takes any status.
collection_ready_any(status) == status # None

\* if response['collectionSummaries'][0]['status'] == 'ACTIVE': break
collection_ready(status) == status = "ACTIVE"

\* A variant of the upload loop that stops at the first document whose
\* put_object fails.
after_put_object_break(doc, answer) ==
    IF doc < SampleDocs /\ answer = "OK" THEN "put_object" ELSE "create_knowledge_base"

\* for doc in sample_docs: try: put_object ... except ClientError: print.
\* The next document, or after the last one Step 5.
after_put_object(doc, answer) ==
    IF doc < SampleDocs THEN "put_object" ELSE "create_knowledge_base"

\* A variant of the ingestion loop's exit test that also takes IN_PROGRESS.
ingestion_ended_early(current_status) ==
    current_status \in {"COMPLETE", "FAILED", "IN_PROGRESS"}

\* if current_status in ['COMPLETE', 'FAILED']: break
ingestion_ended(current_status) == current_status \in {"COMPLETE", "FAILED"}

\* return current_status == 'COMPLETE'
sync_succeeded(current_status) == current_status = "COMPLETE"

\* The return value after sync_knowledge_base: the bundle or None.
final_result(success, locals) ==
    IF success
    THEN [kind |-> "bundle", knowledge_base_id |-> locals.kb_id,
          data_source_id |-> locals.data_source_id,
          bucket_name |-> locals.bucket_name,
          collection_name |-> CollectionName, role_arn |-> locals.role_arn]
    ELSE ReturnedNone

\* One external call and what follows it up to the next call: the call is
\* logged, the provider and the locals change, and setup_complete_system
\* either goes on to next_pc or has ended.
Step(call, answer, cloud2, frame2, failed, next_pc, ended) ==
    /\ calls' = Append(calls, call)
    /\ faulted' = IF answer = "ClientError" THEN faulted \cup {StepOf(call)} ELSE faulted
    /\ cloud' = cloud2
    /\ frame' = frame2
    /\ failed_step' = IF failed THEN StepOf(call) ELSE failed_step
    /\ pc' = next_pc
    /\ result' = IF next_pc = "done" THEN ended ELSE result
    /\ UNCHANGED <<runs, clock, earlier, agentVars, loopVars, bridge, debugVars>>

Returns(method, locals) == [locals EXCEPT !.returned = @ \cup {method}]

\* setup_complete_system is started: the names are generated and the locals
\* are fresh.  What the previous run got returned is remembered.
start_setup_complete_system ==
    /\ pc \in {"idle", "done"}
    /\ runs < MaxRuns
    /\ \E now \in clock..MaxClock :
         /\ clock' = now
         /\ frame' = [NoFrame EXCEPT !.bucket_name = now]
    /\ runs' = runs + 1
    /\ pc' = "create_bucket"
    /\ result' = NoResult
    /\ calls' = <<>>
    /\ faulted' = {}
    /\ failed_step' = 0
    /\ earlier' = [buckets |-> earlier.buckets \cup
                                (IF frame.bucket_created THEN {frame.bucket_name} ELSE {}),
                   role_arn |-> IF frame.role_arn # None
                                THEN frame.role_arn ELSE earlier.role_arn,
                   collection_arn |-> IF frame.collection_arn # None
                                      THEN frame.collection_arn ELSE earlier.collection_arn,
                   succeeded |-> earlier.succeeded \/ result.kind = "bundle"]
    /\ UNCHANGED <<cloud, agentVars, loopVars, bridge, debugVars>>

\* create_s3_bucket: True on success and on BucketAlreadyOwnedByYou.
create_s3_bucket ==
    /\ pc = "create_bucket"
    /\ \E answer \in Answers("create_bucket") :
         LET created == answer \in {"OK", "BucketAlreadyOwnedByYou"}
         IN Step("create_bucket", answer,
                 IF answer = "OK"
                 THEN [cloud EXCEPT !.buckets = @ \cup {frame.bucket_name}] ELSE cloud,
                 Returns("create_s3_bucket", [frame EXCEPT !.bucket_created = created]),
                 ~created, after_create_s3_bucket(created), ReturnedNone)

\* create_iam_role_for_bedrock, iam.create_role: EntityAlreadyExists leads
\* to get_role, another ClientError to return None.
create_role ==
    /\ pc = "create_role"
    /\ \E answer \in Answers("create_role") :
         IF answer = "OK"
         THEN Step("create_role", answer, [cloud EXCEPT !.role = TRUE],
                   [frame EXCEPT !.policy = 1], FALSE, "attach_role_policy", ReturnedNone)
         ELSE IF answer = "EntityAlreadyExists"
         THEN Step("create_role", answer, cloud, frame, FALSE, "get_role", ReturnedNone)
         ELSE Step("create_role", answer, cloud,
                   Returns("create_iam_role_for_bedrock", frame),
                   TRUE, after_create_iam_role(None), ReturnedNone)

\* create_iam_role_for_bedrock, iam.attach_role_policy for each managed policy.
attach_role_policy ==
    /\ pc = "attach_role_policy"
    /\ \E answer \in Answers("attach_role_policy") :
         IF answer = "OK"
         THEN Step("attach_role_policy", answer,
                   [cloud EXCEPT !.role_policies = @ \cup {ManagedPolicies[frame.policy]}],
                   [frame EXCEPT !.policy = @ + 1], FALSE,
                   IF frame.policy < Len(ManagedPolicies)
                   THEN "attach_role_policy" ELSE "put_role_policy",
                   ReturnedNone)
         ELSE Step("attach_role_policy", answer, cloud,
                   Returns("create_iam_role_for_bedrock", frame),
                   TRUE, after_create_iam_role(None), ReturnedNone)

\* create_iam_role_for_bedrock, iam.put_role_policy, then return the new ARN.
put_role_policy ==
    /\ pc = "put_role_policy"
    /\ \E answer \in Answers("put_role_policy") :
         IF answer = "OK"
         THEN Step("put_role_policy", answer,
                   [cloud EXCEPT !.role_policies = @ \cup {InlinePolicy}],
                   Returns("create_iam_role_for_bedrock", [frame EXCEPT !.role_arn = RoleArn]),
                   FALSE, after_create_iam_role(RoleArn), ReturnedNone)
         ELSE Step("put_role_policy", answer, cloud,
                   Returns("create_iam_role_for_bedrock", frame),
                   TRUE, after_create_iam_role(None), ReturnedNone)

\* create_iam_role_for_bedrock, iam.get_role inside the except clause: its
\* own ClientError is caught by nothing and leaves setup_complete_system.
get_role ==
    /\ pc = "get_role"
    /\ \E answer \in Answers("get_role") :
         IF answer = "OK"
         THEN Step("get_role", answer, cloud,
                   Returns("create_iam_role_for_bedrock", [frame EXCEPT !.role_arn = RoleArn]),
                   FALSE, after_create_iam_role(RoleArn), ReturnedNone)
         ELSE Step("get_role", answer, cloud, frame, TRUE, "done", Raised)

\* create_opensearch_collection, create_security_policy(type='encryption').
create_security_policy_encryption ==
    /\ pc = "create_security_policy_encryption"
    /\ \E answer \in Answers("create_security_policy_encryption") :
         IF answer = "OK"
         THEN Step("create_security_policy_encryption", answer,
                   [cloud EXCEPT !.security_policies = @ \cup {"encryption"}],
                   frame, FALSE, "create_security_policy_network", ReturnedNone)
         ELSE Step("create_security_policy_encryption", answer, cloud,
                   Returns("create_opensearch_collection", frame),
                   TRUE, after_create_collection(None), ReturnedNone)

\* create_opensearch_collection, create_security_policy(type='network').
create_security_policy_network ==
    /\ pc = "create_security_policy_network"
    /\ \E answer \in Answers("create_security_policy_network") :
         IF answer = "OK"
         THEN Step("create_security_policy_network", answer,
                   [cloud EXCEPT !.security_policies = @ \cup {"network"}],
                   frame, FALSE, "create_collection", ReturnedNone)
         ELSE Step("create_security_policy_network", answer, cloud,
                   Returns("create_opensearch_collection", frame),
                   TRUE, after_create_collection(None), ReturnedNone)

\* create_opensearch_collection, opensearch.create_collection.
create_collection ==
    /\ pc = "create_collection"
    /\ \E answer \in Answers("create_collection") :
         IF answer = "OK"
         THEN Step("create_collection", answer, [cloud EXCEPT !.collection = "CREATING"],
                   [frame EXCEPT !.polls = 0], FALSE, "list_collections", ReturnedNone)
         ELSE Step("create_collection", answer, cloud,
                   Returns("create_opensearch_collection", frame),
                   TRUE, after_create_collection(None), ReturnedNone)

\* create_opensearch_collection, one round of "while True": list_collections,
\* then return the ARN on ACTIVE or sleep and poll again.
list_collections ==
    /\ pc = "list_collections"
    /\ cloud.collection = "ACTIVE" \/ frame.polls < MaxPolls
    /\ \E answer \in Answers("list_collections") :
         IF answer = "OK"
         THEN LET seen == [frame EXCEPT !.collection_status = cloud.collection]
              IN IF collection_ready(cloud.collection)
                 THEN Step("list_collections", answer, cloud,
                           Returns("create_opensearch_collection",
                                   [seen EXCEPT !.collection_arn = CollectionArn]),
                           FALSE, after_create_collection(CollectionArn), ReturnedNone)
                 ELSE IF keep_waiting(frame.polls)
                 THEN Step("list_collections", answer, cloud,
                           [seen EXCEPT !.polls = @ + 1], FALSE, "list_collections",
                           ReturnedNone)
                 ELSE Step("list_collections", answer, cloud,
                           Returns("create_opensearch_collection", seen),
                           TRUE, after_create_collection(None), ReturnedNone)
         ELSE Step("list_collections", answer, cloud,
                   Returns("create_opensearch_collection", frame),
                   TRUE, after_create_collection(None), ReturnedNone)

\* upload_sample_documents, s3.put_object of one document: an error is
\* printed and the loop goes on.
put_object ==
    /\ pc = "put_object"
    /\ \E answer \in Answers("put_object") :
         Step("put_object", answer,
              IF answer = "OK"
              THEN [cloud EXCEPT !.objects = @ \cup {<<frame.bucket_name, frame.doc>>}]
              ELSE cloud,
              IF after_put_object(frame.doc, answer) = "put_object"
              THEN [frame EXCEPT !.doc = @ + 1]
              ELSE Returns("upload_sample_documents", frame),
              FALSE, after_put_object(frame.doc, answer), ReturnedNone)

\* create_knowledge_base, bedrock_agent.create_knowledge_base.
create_knowledge_base ==
    /\ pc = "create_knowledge_base"
    /\ \E answer \in Answers("create_knowledge_base") :
         IF answer = "OK"
         THEN Step("create_knowledge_base", answer, [cloud EXCEPT !.knowledge_base = TRUE],
                   frame, FALSE, "create_data_source", ReturnedNone)
         ELSE Step("create_knowledge_base", answer, cloud,
                   Returns("create_knowledge_base", frame),
                   TRUE, after_create_knowledge_base(None), ReturnedNone)

\* create_knowledge_base, bedrock_agent.create_data_source, then return
\* (kb_id, data_source_id), or (None, None) on a ClientError.
create_data_source ==
    /\ pc = "create_data_source"
    /\ \E answer \in Answers("create_data_source") :
         IF answer = "OK"
         THEN Step("create_data_source", answer, [cloud EXCEPT !.data_source = TRUE],
                   Returns("create_knowledge_base",
                           [frame EXCEPT !.kb_id = KbId, !.data_source_id = DataSourceId]),
                   FALSE, after_create_knowledge_base(KbId), ReturnedNone)
         ELSE Step("create_data_source", answer, cloud,
                   Returns("create_knowledge_base", frame),
                   TRUE, after_create_knowledge_base(None), ReturnedNone)

\* time.sleep(60), then sync_knowledge_base, start_ingestion_job.
start_ingestion_job ==
    /\ pc = "start_ingestion_job"
    /\ \E answer \in Answers("start_ingestion_job") :
         IF answer = "OK"
         THEN Step("start_ingestion_job", answer, [cloud EXCEPT !.ingestion_job = "STARTED"],
                   [frame EXCEPT !.polls = 0], FALSE, "get_ingestion_job", ReturnedNone)
         ELSE Step("start_ingestion_job", answer, cloud,
                   Returns("sync_knowledge_base", frame),
                   TRUE, "done", final_result(FALSE, frame))

\* sync_knowledge_base, one round of "while True": get_ingestion_job, then
\* return on COMPLETE or FAILED, or sleep and poll again.
get_ingestion_job ==
    /\ pc = "get_ingestion_job"
    /\ cloud.ingestion_job \in {"COMPLETE", "FAILED"} \/ frame.polls < MaxPolls
    /\ \E answer \in Answers("get_ingestion_job") :
         IF answer = "OK"
         THEN LET seen == [frame EXCEPT
                              !.current_status = cloud.ingestion_job,
                              !.ingestion_statuses = Append(@, cloud.ingestion_job)]
              IN IF ingestion_ended(seen.current_status)
                 THEN Step("get_ingestion_job", answer, cloud,
                           Returns("sync_knowledge_base", seen),
                           ~sync_succeeded(seen.current_status), "done",
                           final_result(sync_succeeded(seen.current_status), seen))
                 ELSE IF keep_waiting(frame.polls)
                 THEN Step("get_ingestion_job", answer, cloud,
                           [seen EXCEPT !.polls = @ + 1], FALSE, "get_ingestion_job",
                           ReturnedNone)
                 ELSE Step("get_ingestion_job", answer, cloud,
                           Returns("sync_knowledge_base", seen),
                           TRUE, "done", final_result(FALSE, seen))
         ELSE Step("get_ingestion_job", answer, cloud,
                   Returns("sync_knowledge_base", frame),
                   TRUE, "done", final_result(FALSE, frame))

\* The provider brings a collection from CREATING to ACTIVE, or to FAILED.
collection_becomes_active ==
    /\ cloud.collection = "CREATING"
    /\ cloud' = [cloud EXCEPT !.collection = "ACTIVE"]
    /\ UNCHANGED <<pc, frame, result, calls, runs, clock, faulted, earlier, failed_step,
                   agentVars, loopVars, bridge, debugVars>>

collection_fails ==
    /\ cloud.collection = "CREATING"
    /\ cloud' = [cloud EXCEPT !.collection = "FAILED"]
    /\ UNCHANGED <<pc, frame, result, calls, runs, clock, faulted, earlier, failed_step,
                   agentVars, loopVars, bridge, debugVars>>

\* The provider runs the ingestion job: STARTED, IN_PROGRESS, then COMPLETE
\* or FAILED.
ingestion_job_progresses ==
    /\ cloud.ingestion_job = "STARTED"
    /\ cloud' = [cloud EXCEPT !.ingestion_job = "IN_PROGRESS"]
    /\ UNCHANGED <<pc, frame, result, calls, runs, clock, faulted, earlier, failed_step,
                   agentVars, loopVars, bridge, debugVars>>

ingestion_job_ends ==
    /\ cloud.ingestion_job = "IN_PROGRESS"
    /\ \E status \in {"COMPLETE", "FAILED"} :
         cloud' = [cloud EXCEPT !.ingestion_job = status]
    /\ UNCHANGED <<pc, frame, result, calls, runs, clock, faulted, earlier, failed_step,
                   agentVars, loopVars, bridge, debugVars>>

(***************************************************************************)
(* The debug routes of the HTTP Facade (src/backend/main.py): each spawns  *)
(* the Tool Bridge as a subprocess, writes one JSON-RPC request to its     *)
(* input and reads its output within a timeout.  The subprocess is outside *)
(* the program: what becomes of it is drawn from what a process can do.    *)
(***************************************************************************)
\* subprocess.Popen raises FileNotFoundError (no interpreter, no working
\* directory) or another OSError; communicate raises TimeoutExpired; the
\* process exits non-zero, exits 0 without output, exits 0 with output that
\* is not JSON, with JSON that is not an object, or with a JSON object.
SubprocessOutcomes ==
    {"not_found", "spawn_failed", "timeout", "exit_nonzero", "no_output",
     "garbage", "not_an_object", "reply"}

\* The tools named in a request to the tool route.
ToolNames == {"list_agent_modes", "chat_with_agent"}

\* The fields of a debug route's answer that tell the outcome.
NoReport == [status |-> None, mcp_server_status |-> None, error |-> None]

\* The spawned process when Popen and communicate are through.
process_after(outcome) ==
    CASE outcome \in {"not_found", "spawn_failed"} -> "not_spawned"
      [] outcome = "timeout" -> "running"
      [] OTHER -> "exited"

\* A variant of the timeout handler that leaves the process alone.
on_timeout_abandon(process) == process

\* except subprocess.TimeoutExpired: process.kill()
on_timeout(process) == "killed"

\* GET /test-mcp-connection: the answer and the process it leaves.
test_mcp_connection(outcome) ==
    [raised |-> FALSE,
     process |-> IF outcome = "timeout" THEN on_timeout(process_after(outcome))
                 ELSE process_after(outcome),
     reply |->
       CASE outcome = "reply" ->
              [NoReport EXCEPT !.status = "success", !.mcp_server_status = "connected"]
         [] outcome = "garbage" ->
              [NoReport EXCEPT !.status = "partial_success",
                               !.mcp_server_status = "running_but_communication_issue"]
         [] outcome \in {"exit_nonzero", "no_output"} ->
              [status |-> "error", mcp_server_status |-> "failed_to_start",
               error |-> "stderr"]
         [] outcome = "timeout" ->
              [status |-> "error", mcp_server_status |-> "timeout",
               error |-> "FastMCP server did not respond within 10 seconds"]
         [] outcome = "not_found" ->
              [status |-> "error", mcp_server_status |-> "not_found",
               error |-> "FastMCP server file not found. Check the path."]
         [] OTHER ->
              [status |-> "error", mcp_server_status |-> "unknown_error",
               error |-> "str(e)"]]

\* POST /test-mcp-tool: the answer and the process it leaves.  A JSON reply
\* that is not an object fails on response.get and reaches "except Exception",
\* as every error of Popen does.
test_mcp_tool(tool_name, outcome) ==
    [raised |-> FALSE,
     process |-> IF outcome = "timeout" THEN on_timeout(process_after(outcome))
                 ELSE process_after(outcome),
     reply |->
       CASE outcome = "reply" -> [NoReport EXCEPT !.status = "success"]
         [] outcome = "garbage" ->
              [NoReport EXCEPT !.status = "error", !.error = "Invalid JSON response"]
         [] outcome \in {"exit_nonzero", "no_output"} ->
              [NoReport EXCEPT !.status = "error", !.error = "stderr"]
         [] outcome = "timeout" ->
              [NoReport EXCEPT !.status = "error", !.error = "Tool execution timed out"]
         [] OTHER -> [NoReport EXCEPT !.status = "error", !.error = "str(e)"]]

\* get_mcp_recommendations(mcp_test, tool_test); tool_test is <<>> for None
\* (the sample tool was not tried) and <<answer>> otherwise.
get_mcp_recommendations(mcp_test, tool_test) ==
    LET connection ==
            IF mcp_test.status # "success"
            THEN IF mcp_test.mcp_server_status = "not_found"
                 THEN <<"Check FastMCP server file path",
                        "Ensure FastMCP server is in the correct directory">>
                 ELSE IF mcp_test.mcp_server_status = "timeout"
                 THEN <<"FastMCP server is starting slowly - check for errors",
                        "Ensure all dependencies are installed">>
                 ELSE <<"Check FastMCP server logs for errors",
                        "Verify Python environment and dependencies">>
            ELSE <<>>
        tools ==
            IF tool_test # <<>> /\ tool_test[1].status # "success"
            THEN <<"MCP tools are not working properly",
                   "Check FastAPI backend is running on port 8000">>
            ELSE <<>>
    IN  IF connection \o tools = <<>>
        THEN <<"All systems working perfectly!", "MCP integration is ready for use">>
        ELSE connection \o tools

\* GET /mcp-status: the connection probe, then the sample tool probe, then
\* the verdict.  The probes return on every path, so the route's own
\* "except Exception" is never entered.
get_mcp_status(outcome, sample_outcome) ==
    LET connection == test_mcp_connection(outcome)
        mcp_test == connection.reply
        tried == mcp_test.status = "success"
        sample == test_mcp_tool("list_agent_modes", sample_outcome)
        tool_test == IF tried THEN <<sample.reply>> ELSE <<>>
    IN  [overall_status |-> IF mcp_test.status = "success"
                            THEN "healthy" ELSE "issues_detected",
         mcp_server |-> mcp_test,
         sample_tool_test |-> tool_test,
         integration_working |-> (mcp_test.status = "success" /\ tool_test # <<>>),
         recommendations |-> get_mcp_recommendations(mcp_test, tool_test),
         process |-> connection.process,
         sample_outcome |-> IF tried THEN sample_outcome ELSE None,
         sample_process |-> IF tried THEN sample.process ELSE "not_spawned"]

\* The observation record of a debug request, and of the one before it.
NoDebug ==
    [route |-> None, tool_name |-> None, outcome |-> None, process |-> "not_spawned",
     raised |-> FALSE, reply |-> NoReport,
     sample_outcome |-> None, sample_process |-> "not_spawned",
     sample_tool_test |-> <<>>, overall_status |-> None,
     integration_working |-> FALSE, recommendations |-> <<>>,
     previous |-> [route |-> None, outcome |-> None, reply |-> NoReport]]

Earlier(d) == [route |-> d.route, outcome |-> d.outcome, reply |-> d.reply]

TestMcpConnection ==
    /\ \E outcome \in SubprocessOutcomes :
         LET answer == test_mcp_connection(outcome)
         IN debug' = [NoDebug EXCEPT !.route = "test_mcp_connection",
                                     !.outcome = outcome,
                                     !.process = answer.process,
                                     !.raised = answer.raised,
                                     !.reply = answer.reply,
                                     !.previous = Earlier(debug)]
    /\ UNCHANGED <<agentVars, provVars, loopVars, bridge, harness>>

TestMcpTool ==
    /\ \E tool_name \in ToolNames, outcome \in SubprocessOutcomes :
         LET answer == test_mcp_tool(tool_name, outcome)
         IN debug' = [NoDebug EXCEPT !.route = "test_mcp_tool",
                                     !.tool_name = tool_name,
                                     !.outcome = outcome,
                                     !.process = answer.process,
                                     !.raised = answer.raised,
                                     !.reply = answer.reply,
                                     !.previous = Earlier(debug)]
    /\ UNCHANGED <<agentVars, provVars, loopVars, bridge, harness>>

GetMcpStatus ==
    /\ \E outcome \in SubprocessOutcomes, sample_outcome \in SubprocessOutcomes :
         LET answer == get_mcp_status(outcome, sample_outcome)
         IN debug' = [NoDebug EXCEPT !.route = "mcp_status",
                                     !.outcome = outcome,
                                     !.process = answer.process,
                                     !.reply = answer.mcp_server,
                                     !.sample_outcome = answer.sample_outcome,
                                     !.sample_process = answer.sample_process,
                                     !.sample_tool_test = answer.sample_tool_test,
                                     !.overall_status = answer.overall_status,
                                     !.integration_working = answer.integration_working,
                                     !.recommendations = answer.recommendations,
                                     !.previous = Earlier(debug)]
    /\ UNCHANGED <<agentVars, provVars, loopVars, bridge, harness>>

\* GET /health: one call of the generation endpoint; the route answers
\* HTTP 200 on both paths.
health_check(answer) ==
    IF answer.error
    THEN [status_code |-> 200, status |-> "unhealthy", bedrock_connection |-> None]
    ELSE [status_code |-> 200, status |-> "healthy", bedrock_connection |-> "OK"]

(***************************************************************************)
(* The test harness (src/backend/test.py), a client of the HTTP Facade.    *)
(* A request of the harness is answered by the route (HTTP 200 and the     *)
(* route's body), answered with another status code by whatever stands in  *)
(* front of the facade, or not answered at all.                            *)
(***************************************************************************)
Transports == {"answered", "http_error", "request_failed"}

\* tools_to_test of run_comprehensive_test.
tools_to_test == <<"list_agent_modes", "check_system_health", "chat_with_agent">>

NoDetails == [status |-> None, bedrock_connection |-> None]

\* pc: the statement of run_comprehensive_test reached; probes: the probes
\* run so far, in order; the results are the dictionaries the probes returned.
NoHarness ==
    [pc |-> "idle", probes |-> <<>>,
     backend_result |-> [status |-> None, details |-> NoDetails],
     mcp_result |-> [status |-> None],
     tool_results |-> <<>>,
     integration_result |-> [status |-> None, overall_status |-> None,
                             integration_working |-> FALSE]]

\* What a probe returns for a route's body that is not delivered.
undelivered(transport) ==
    IF transport = "http_error" THEN "http_error" ELSE "request_failed"

\* MCPIntegrationTester.test_backend_health
tester_test_backend_health(transport, body) ==
    IF transport = "answered"
    THEN IF body.status_code = 200
         THEN [status |-> "healthy",
               details |-> [status |-> body.status,
                            bedrock_connection |-> body.bedrock_connection]]
         ELSE [status |-> "error", details |-> NoDetails]
    ELSE IF transport = "http_error"
    THEN [status |-> "error", details |-> NoDetails]
    ELSE [status |-> "connection_failed", details |-> NoDetails]

\* MCPIntegrationTester.test_mcp_connection: the route's body, or the
\* harness's own error dictionary.
tester_test_mcp_connection(transport, data) ==
    IF transport = "answered" THEN [status |-> data.status]
    ELSE [status |-> undelivered(transport)]

\* MCPIntegrationTester.test_mcp_tool
tester_test_mcp_tool(transport, data) ==
    IF transport = "answered" THEN [status |-> data.status]
    ELSE [status |-> undelivered(transport)]

\* MCPIntegrationTester.test_full_integration
tester_test_full_integration(transport, data) ==
    IF transport = "answered"
    THEN [status |-> None, overall_status |-> data.overall_status,
          integration_working |-> data.integration_working]
    ELSE [status |-> undelivered(transport), overall_status |-> None,
          integration_working |-> FALSE]

\* run_comprehensive_test is started (again).
run_comprehensive_test ==
    /\ harness.pc \in {"idle", "done"}
    /\ harness' = [NoHarness EXCEPT !.pc = "backend_health"]
    /\ UNCHANGED <<agentVars, provVars, loopVars, bridge, debug>>

\* Test 1, and the gate of test 2.
probe_backend_health ==
    /\ harness.pc = "backend_health"
    /\ \E transport \in Transports, answer \in GenerationOutcomes :
         LET backend_result == tester_test_backend_health(transport, health_check(answer))
         IN harness' = [harness EXCEPT
                          !.probes = Append(@, "backend_health"),
                          !.backend_result = backend_result,
                          !.pc = IF backend_result.status = "healthy"
                                 THEN "mcp_connection" ELSE "done"]
    /\ UNCHANGED <<agentVars, provVars, loopVars, bridge, debug>>

\* Test 2, and the gate of tests 3 and 4.
probe_mcp_connection ==
    /\ harness.pc = "mcp_connection"
    /\ \E transport \in Transports, outcome \in SubprocessOutcomes :
         LET mcp_result ==
                 tester_test_mcp_connection(transport, test_mcp_connection(outcome).reply)
         IN harness' = [harness EXCEPT
                          !.probes = Append(@, "mcp_connection"),
                          !.mcp_result = mcp_result,
                          !.pc = IF mcp_result.status = "success"
                                 THEN "tools" ELSE "done"]
    /\ UNCHANGED <<agentVars, provVars, loopVars, bridge, debug>>

\* Test 3: one pass of the loop over tools_to_test.
probe_mcp_tool ==
    /\ harness.pc = "tools"
    /\ \E transport \in Transports, outcome \in SubprocessOutcomes :
         LET tool_name == tools_to_test[Len(harness.tool_results) + 1]
             tool_result ==
                 tester_test_mcp_tool(transport, test_mcp_tool(tool_name, outcome).reply)
         IN harness' = [harness EXCEPT
                          !.probes = Append(@, tool_name),
                          !.tool_results = Append(@, tool_result),
                          !.pc = IF Len(harness.tool_results) + 1 = Len(tools_to_test)
                                 THEN "integration" ELSE "tools"]
    /\ UNCHANGED <<agentVars, provVars, loopVars, bridge, debug>>

\* Test 4.
probe_full_integration ==
    /\ harness.pc = "integration"
    /\ \E transport \in Transports, outcome \in SubprocessOutcomes,
          sample_outcome \in SubprocessOutcomes :
         harness' = [harness EXCEPT
                       !.probes = Append(@, "full_integration"),
                       !.integration_result =
                           tester_test_full_integration(
                               transport, get_mcp_status(outcome, sample_outcome)),
                       !.pc = "done"]
    /\ UNCHANGED <<agentVars, provVars, loopVars, bridge, debug>>

\* AIAgentService.__init__; the knowledge index id is configured by hand
\* from the Provisioner's output, or left unset.
Init ==
    /\ knowledge_base_id \in {None, "kb-1"}
    /\ conversations = <<>>
    /\ last = NoRequest
    /\ deleted = {}
    /\ cloud = NoCloud
    /\ pc = "idle"
    /\ frame = NoFrame
    /\ result = NoResult
    /\ calls = <<>>
    /\ runs = 0
    /\ clock = 1
    /\ faulted = {}
    /\ earlier = [buckets |-> {}, role_arn |-> None, collection_arn |-> None,
                  succeeded |-> FALSE]
    /\ failed_step = 0
    /\ tasks = [t \in Tasks |-> NoTask]
    /\ running = None
    /\ bridge = NoTool
    /\ debug = NoDebug
    /\ harness = NoHarness

Next == Chat \/ GetConversation \/ DeleteConversation

Spec == Init /\ [][Next]_vars

\* The Resource Provisioner and the provider, before any index is configured.
ProvInit == Init /\ knowledge_base_id = None

ProvNext ==
    \/ start_setup_complete_system
    \/ create_s3_bucket
    \/ create_role
    \/ attach_role_policy
    \/ put_role_policy
    \/ get_role
    \/ create_security_policy_encryption
    \/ create_security_policy_network
    \/ create_collection
    \/ list_collections
    \/ put_object
    \/ create_knowledge_base
    \/ create_data_source
    \/ start_ingestion_job
    \/ get_ingestion_job
    \/ collection_becomes_active
    \/ collection_fails
    \/ ingestion_job_progresses
    \/ ingestion_job_ends

ProvSpec == ProvInit /\ [][ProvNext]_vars

\* The external calls of setup_complete_system.
ProvisionerStep ==
    \/ create_s3_bucket
    \/ create_role
    \/ attach_role_policy
    \/ put_role_policy
    \/ get_role
    \/ create_security_policy_encryption
    \/ create_security_policy_network
    \/ create_collection
    \/ list_collections
    \/ put_object
    \/ create_knowledge_base
    \/ create_data_source
    \/ start_ingestion_job
    \/ get_ingestion_job

\* The Provisioner under fairness: a started run keeps running (it is a
\* sequential script whose calls return), a collection that is being created
\* leaves CREATING, and an ingestion job moves on to a terminal status.
ProvFairSpec ==
    /\ ProvSpec
    /\ WF_vars(ProvisionerStep)
    /\ WF_vars(collection_becomes_active)
    /\ WF_vars(ingestion_job_progresses)
    /\ WF_vars(ingestion_job_ends)

\* Two chat requests, deletes and gets on the event loop.
LoopNext ==
    \/ \E t \in Tasks, request_id \in {None} \cup ClientIds : chat_begin(t, request_id)
    \/ \E t \in Tasks : chat_retrieve(t)
    \/ \E t \in Tasks : chat_generate(t)
    \/ loop_delete_conversation
    \/ loop_get_conversation

LoopSpec == Init /\ [][LoopNext]_vars

\* The routes that keep no conversation state, beside the chat route.
StatelessNext == PlainChat \/ Summarize \/ Quiz \/ QueryRankedKnowledgeBase

StatelessSpec == Init /\ [][StatelessNext]_vars

\* The tools of the Tool Bridge.
BridgeNext ==
    \/ chat_with_agent
    \/ summarize_text
    \/ tool_create_quiz
    \/ tool_query_knowledge_base
    \/ tool_get_conversation
    \/ list_agent_modes
    \/ check_system_health

BridgeSpec == Init /\ [][BridgeNext]_vars

\* The debug routes of the HTTP Facade.
DebugNext == TestMcpConnection \/ TestMcpTool \/ GetMcpStatus

DebugSpec == Init /\ [][DebugNext]_vars

\* The test harness.
HarnessNext ==
    \/ run_comprehensive_test
    \/ probe_backend_health
    \/ probe_mcp_connection
    \/ probe_mcp_tool
    \/ probe_full_integration

HarnessSpec == Init /\ [][HarnessNext]_vars

\* The knowledge-base query route alone.
QueryNext == QueryKnowledgeBase

QuerySpec == Init /\ [][QueryNext]_vars

CX_C2_CreationIdempotent ==
    /\ ("create_s3_bucket" \in frame.returned
          /\ frame.bucket_name \in earlier.buckets /\ 1 \notin faulted)
       => frame.bucket_created
    /\ ("create_iam_role_for_bedrock" \in frame.returned
          /\ earlier.role_arn # None /\ 2 \notin faulted)
       => frame.role_arn = earlier.role_arn
    /\ ("create_opensearch_collection" \in frame.returned
          /\ earlier.collection_arn # None /\ 3 \notin faulted)
       => frame.collection_arn = earlier.collection_arn

\* C3 (as claimed): a re-run of setup_complete_system after failed runs,
\* meeting no unexpected provider error and no FAILED ingestion job, ends in
\* full success.
CX_C3_RerunSucceeds ==
    (/\ runs >= 2
     /\ ~earlier.succeeded
     /\ pc = "done"
     /\ faulted = {}
     /\ frame.current_status # "FAILED")
    => result.kind = "bundle"

\* C4 (as claimed): a run that has ended returned the full bundle exactly
\* when bucket, role, collection and knowledge-index creation succeeded and
\* the ingestion job ended COMPLETE, and returned None otherwise.
CX_C4_BundleOrNone ==
    pc = "done" =>
        IF /\ frame.bucket_created
           /\ frame.role_arn # None
           /\ frame.collection_arn # None
           /\ frame.kb_id # None
           /\ frame.current_status = "COMPLETE"
        THEN result = [kind |-> "bundle", knowledge_base_id |-> KbId,
                       data_source_id |-> DataSourceId,
                       bucket_name |-> frame.bucket_name,
                       collection_name |-> CollectionName, role_arn |-> RoleArn]
        ELSE result.kind = "None"

\* The terminal statuses of an ingestion job.
TerminalStatuses == {"COMPLETE", "FAILED"}

\* C11: sync_knowledge_base polls the ingestion job until it observes
\* COMPLETE or FAILED: no status observed before the latest one is terminal
\* and once a terminal status was observed the method has returned (no
\* further poll); it has not returned after non-terminal observations only
\* unless a call of the step errored; and it returned success (the run
\* returns the bundle) exactly when the latest observed status is COMPLETE.
Thm_C11_SyncPollsToTerminal ==
    LET seen == frame.ingestion_statuses
    IN  /\ \A i \in 1..(Len(seen) - 1) : seen[i] \notin TerminalStatuses
        /\ (seen # <<>> /\ seen[Len(seen)] \in TerminalStatuses) =>
              /\ pc = "done"
              /\ "sync_knowledge_base" \in frame.returned
              /\ calls[Len(calls)] = "get_ingestion_job"
        /\ "sync_knowledge_base" \in frame.returned =>
              /\ pc = "done"
              /\ 6 \notin faulted => (seen # <<>> /\ seen[Len(seen)] \in TerminalStatuses)
              /\ result.kind = "bundle" <=> (seen # <<>> /\ seen[Len(seen)] = "COMPLETE")
              /\ result.kind \in {"bundle", "None"}

\* A sync that saw STARTED, then IN_PROGRESS, then COMPLETE, and returned success.
Wit_C11_PolledToComplete ==
    /\ frame.ingestion_statuses = <<"STARTED", "IN_PROGRESS", "COMPLETE">>
    /\ "sync_knowledge_base" \in frame.returned
    /\ result.kind = "bundle"

\* C12: neither polling loop has a timeout: the collection loop is left only
\* by a poll that shows ACTIVE or by a provider error, the ingestion loop
\* only by a poll that shows COMPLETE or FAILED or by a provider error (so a
\* run whose resource never gets there polls for ever); and under fairness
\* every started run ends, unless its collection never becomes ACTIVE.
Thm_C12_NoTimeout ==
    /\ [][(pc = "list_collections" /\ pc' # "list_collections") =>
            (cloud.collection = "ACTIVE" \/ 3 \in faulted')]_vars
    /\ [][(pc = "get_ingestion_job" /\ pc' # "get_ingestion_job") =>
            (cloud.ingestion_job \in TerminalStatuses \/ 6 \in faulted')]_vars
    /\ (pc \notin {"idle", "done"}) ~>
            (pc = "done" \/ (pc = "list_collections" /\ cloud.collection = "FAILED"))

\* A run still in the collection loop after MaxPolls polls of a collection
\* that failed and will never report ACTIVE.
Wit_C12_StillPolling ==
    /\ pc = "list_collections"
    /\ frame.polls = MaxPolls
    /\ cloud.collection = "FAILED"
    /\ frame.collection_status = "FAILED"
    /\ 3 \notin faulted

\* The calls of the collection step issued so far, and their place in the
\* method.
CollectionCalls == SelectSeq(calls, LAMBDA call : StepOf(call) = 3)
CollectionRank(call) ==
    CASE call = "create_security_policy_encryption" -> 1
      [] call = "create_security_policy_network" -> 2
      [] call = "create_collection" -> 3
      [] call = "list_collections" -> 4

\* C13: create_opensearch_collection issues its calls in the order encryption
\* policy, network policy, collection creation, status polls; after a call
\* that failed with a provider error the run has ended and no further call
\* was issued; the collection identifier is returned only after a poll that
\* showed ACTIVE.
Thm_C13_CollectionOrder ==
    /\ \A i \in 1..Len(CollectionCalls) :
          CollectionRank(CollectionCalls[i]) = (IF i <= 3 THEN i ELSE 4)
    /\ 3 \in faulted => failed_step = 3
    /\ failed_step = 3 =>
          /\ pc = "done"
          /\ frame.collection_arn = None
          /\ StepOf(calls[Len(calls)]) = 3
    /\ frame.collection_arn # None =>
          /\ frame.collection_status = "ACTIVE"
          /\ CollectionCalls[Len(CollectionCalls)] = "list_collections"

\* A collection identifier returned by the second poll, the first having
\* shown CREATING.
Wit_C13_ActiveAfterWaiting ==
    /\ frame.collection_arn = CollectionArn
    /\ frame.polls = 1
    /\ Len(CollectionCalls) = 5
    /\ frame.collection_status = "ACTIVE"

\* The put_object calls issued so far.
Uploads == SelectSeq(calls, LAMBDA call : call = "put_object")

\* C14: every seed document is attempted whatever happened to the documents
\* before it, and upload errors never fail the step: when
\* upload_sample_documents has returned, SampleDocs put_object calls were
\* issued and the run went on to create_knowledge_base.
Thm_C14_UploadsIndependent ==
    /\ pc = "put_object" => Len(Uploads) = frame.doc - 1
    /\ Len(Uploads) <= SampleDocs
    /\ (Uploads # <<>> /\ pc # "put_object") => "upload_sample_documents" \in frame.returned
    /\ "upload_sample_documents" \in frame.returned =>
          /\ Len(Uploads) = SampleDocs
          /\ pc = "create_knowledge_base"
                \/ \E i \in 1..Len(calls) : calls[i] = "create_knowledge_base"
    /\ failed_step # 4

\* A first run in which every upload failed and create_knowledge_base was
\* issued all the same.
Wit_C14_AllUploadsFailed ==
    /\ "upload_sample_documents" \in frame.returned
    /\ 4 \in faulted
    /\ cloud.objects = {}
    /\ Len(Uploads) = SampleDocs
    /\ calls[Len(calls)] = "create_knowledge_base"

\* C23 (as claimed): whenever create_iam_role_for_bedrock has returned a role
\* identifier, the role has both managed policies attached and the inline
\* search-collection policy in place, also when an earlier call created the
\* role and failed while attaching policies.
CX_C23_ReturnedRoleHasPolicies ==
    ("create_iam_role_for_bedrock" \in frame.returned /\ frame.role_arn # None) =>
        /\ cloud.role
        /\ \A i \in 1..Len(ManagedPolicies) : ManagedPolicies[i] \in cloud.role_policies
        /\ InlinePolicy \in cloud.role_policies

(***************************************************************************)
(* Properties of the Agent Service                                         *)
(***************************************************************************)
\* The parts of the latest prompt that open with the given heading.
PartsHeaded(heading) ==
    {i \in 1..Len(last.prompt_parts) : last.prompt_parts[i][1] = heading}

\* The history of the latest chat's conversation, and its turns from before
\* that chat (the chat appended one turn when it failed, two when it succeeded).
ChatHistory == conversations[last.conversation_id]
PriorTurns ==
    SubSeq(ChatHistory, 1, Len(ChatHistory) - (IF last.status = 200 THEN 2 ELSE 1))

RECURSIVE RenderTurns(_)
\* "role: content" lines, one per turn, with a line break between two.
RenderTurns(turns) ==
    IF turns = <<>> THEN <<>>
    ELSE <<turns[1].role, ": ">> \o turns[1].content
         \o (IF Len(turns) > 1 THEN <<"\n">> \o RenderTurns(Tail(turns)) ELSE <<>>)

\* The last four of the prior turns (all of them when there are fewer).
LastFourPrior ==
    LET k == IF Len(PriorTurns) < 4 THEN Len(PriorTurns) ELSE 4
    IN [i \in 1..k |-> PriorTurns[Len(PriorTurns) - k + i]]

\* C5: in process_chat, a conversation with an empty history gets a prompt
\* without a "Conversation history" block; a conversation with prior turns
\* gets exactly one such block, holding exactly the last 4 prior turns (all
\* prior turns when there are fewer than 4) and never the current user turn.
Thm_C5_HistoryBlock ==
    (last.op = "chat" /\ last.prompt_parts # <<>>) =>
        IF PriorTurns = <<>>
        THEN PartsHeaded("Conversation history:") = {}
        ELSE /\ Cardinality(PartsHeaded("Conversation history:")) = 1
             /\ \A i \in PartsHeaded("Conversation history:") :
                    last.prompt_parts[i] =
                        <<"Conversation history:", "\n">> \o RenderTurns(LastFourPrior)

\* A chat on a conversation with five or more prior turns, whose prompt
\* carries a history block: the oldest prior turn is outside the block.
Wit_C5_LongHistory ==
    /\ last.op = "chat"
    /\ last.prompt_parts # <<>>
    /\ Len(PriorTurns) >= 5
    /\ PartsHeaded("Conversation history:") # {}
    /\ PriorTurns[Len(PriorTurns) - 4].role # PriorTurns[Len(PriorTurns) - 3].role

\* C6: when the retrieval endpoint errors during process_chat,
\* query_knowledge_base returns the empty list, the prompt has no
\* knowledge-base context block, the generation endpoint is invoked (once),
\* and, the generation answering, the request succeeds and the assistant turn
\* is appended.
Thm_C6_RetrievalDegrades ==
    (last.op = "chat" /\ last.retrieve_failed) =>
        /\ last.kb_returned = <<>>
        /\ last.prompt_parts # <<>>
        /\ PartsHeaded("Relevant knowledge base context:") = {}
        /\ last.generate_calls = 1
        /\ ~last.generate_failed =>
              /\ last.status = 200
              /\ last.kb_results_count = 0
              /\ ChatHistory[Len(ChatHistory)] = AssistantTurn(last.response)
              /\ ChatHistory[Len(ChatHistory) - 1] = UserTurn(last.message)

\* A chat that succeeded although the retrieval endpoint errored.
Wit_C6_DegradedSuccess ==
    /\ last.op = "chat"
    /\ last.retrieve_failed
    /\ last.retrieve_calls = 1
    /\ last.status = 200
    /\ ChatHistory[Len(ChatHistory)].role = "assistant"

\* C7: when the generation endpoint errors during process_chat, the request
\* fails with HTTP 500, the generation endpoint was invoked exactly once, and
\* no assistant turn is appended: the conversation ends with this request's
\* user turn.
Thm_C7_GenerationFatal ==
    (last.op = "chat" /\ last.generate_failed) =>
        /\ last.status = 500
        /\ last.detail = "Model invocation failed"
        /\ last.generate_calls = 1
        /\ ChatHistory[Len(ChatHistory)] = UserTurn(last.message)

\* A failed generation on a conversation that already held a full exchange.
Wit_C7_FailedTurn ==
    /\ last.op = "chat"
    /\ last.generate_failed
    /\ last.status = 500
    /\ Len(ChatHistory) >= 3
    /\ ChatHistory[Len(ChatHistory) - 1].role = "assistant"

\* C8: deleting an existing conversation id removes it from the store and
\* leaves every other conversation unchanged; until a chat uses the id again
\* it stays absent, and a get for it reports not-found.
Thm_C8_DeleteRemoves ==
    /\ [](\A c \in deleted : c \notin DOMAIN conversations)
    /\ []((last.op = "get" /\ last.conversation_id \in deleted) => last.status = 404)
    /\ [][\A c \in ConvIds :
            (c \in DOMAIN conversations /\ delete_conversation(c)) =>
                /\ last'.status = 200
                /\ c \in deleted'
                /\ DOMAIN conversations' = DOMAIN conversations \ {c}
                /\ \A d \in DOMAIN conversations' : conversations'[d] = conversations[d]]_vars

\* A get that reported not-found for a deleted id while another conversation
\* is still stored.
Wit_C8_GetAfterDelete ==
    /\ last.op = "get"
    /\ last.status = 404
    /\ last.conversation_id \in deleted
    /\ DOMAIN conversations # {}

\* C9: a get or a delete for a conversation id that is not in the store is
\* answered 404 "Conversation not found" and leaves the store unchanged.
Thm_C9_NotFound ==
    [][\A c \in ConvIds :
         (c \notin DOMAIN conversations /\ (get_conversation(c) \/ delete_conversation(c))) =>
             /\ last'.status = 404
             /\ last'.detail = "Conversation not found"
             /\ conversations' = conversations]_vars

\* A delete answered not-found while the store holds a conversation.
Wit_C9_DeleteUnknown ==
    /\ last.op = "delete"
    /\ last.status = 404
    /\ last.detail = "Conversation not found"
    /\ last.conversation_id \notin DOMAIN conversations
    /\ DOMAIN conversations # {}

\* C15: a successful process_chat on conversation c appends exactly two
\* messages to c's history, the user turn with the request's message and then
\* the assistant turn with the generated text, and leaves every other
\* conversation alone; it returns the id of c, conversation_length is the
\* length of c's history at return and kb_results_count the number of
\* retrieved passages.
Thm_C15_SuccessfulChat ==
    [][(last'.op = "chat" /\ last'.status = 200) =>
         LET c == last'.conversation_id
             before == IF c \in DOMAIN conversations THEN conversations[c] ELSE <<>>
         IN /\ c \in DOMAIN conversations'
            /\ Len(conversations'[c]) = Len(before) + 2
            /\ conversations'[c] =
                  before \o << [role |-> "user", content |-> last'.message],
                               [role |-> "assistant", content |-> last'.response] >>
            /\ last'.response \in ModelOutputs
            /\ \A d \in DOMAIN conversations \ {c} :
                  d \in DOMAIN conversations' /\ conversations'[d] = conversations[d]
            /\ DOMAIN conversations' = DOMAIN conversations \cup {c}
            /\ last'.conversation_length = Len(conversations'[c])
            /\ last'.kb_results_count = Len(last'.kb_returned)
            /\ last'.retrieve_calls = 0 => last'.kb_results_count = 0]_vars

\* A successful chat on a conversation that already held an exchange, with
\* four passages retrieved: the history has length four.
Wit_C15_SecondExchange ==
    /\ last.op = "chat"
    /\ last.status = 200
    /\ last.conversation_length = 4
    /\ last.kb_results_count = 4
    /\ Len(conversations[last.conversation_id]) = 4

\* The place of a prompt block in the order of the claim, by its opening.
BlockKind(part) ==
    CASE part[1] = "AGENT_PROMPT" -> 1
      [] part[1] = "Relevant knowledge base context:" -> 2
      [] part[1] = "Additional context:" -> 3
      [] part[1] = "Conversation history:" -> 4
      [] part[1] = "User query: " -> 5
      [] part[1] = "Respond as a " -> 6
      [] OTHER -> 0

\* The text of the first three retrieved passages, a line break between two.
TopThreeText ==
    LET k == last.kb_returned
    IN  IF Len(k) = 0 THEN <<>>
        ELSE IF Len(k) = 1 THEN k[1].content
        ELSE IF Len(k) = 2 THEN k[1].content \o <<"\n">> \o k[2].content
        ELSE k[1].content \o <<"\n">> \o k[2].content \o <<"\n">> \o k[3].content

\* C17: the prompt of process_chat has its blocks in the order mode
\* instruction, retrieved context, caller's context, conversation history,
\* 'User query' line, trailing instruction naming the mode, each at most once;
\* the first and the last two are always there, the retrieved-context block
\* exactly when the retrieved text is non-empty, the caller's block exactly
\* when a non-empty context was supplied, the history block exactly when the
\* conversation has prior turns.
Thm_C17_PromptOrder ==
    (last.op = "chat" /\ last.prompt_parts # <<>>) =>
        LET parts == last.prompt_parts
            n == Len(parts)
        IN  /\ n >= 3
            /\ \A i \in 1..n : BlockKind(parts[i]) # 0
            /\ \A i \in 1..(n - 1) : BlockKind(parts[i]) < BlockKind(parts[i + 1])
            /\ \E mode \in RequestModes :
                  /\ parts[1] = <<"AGENT_PROMPT", mode>>
                  /\ parts[n] = <<"Respond as a ", mode, ":">>
            /\ parts[n - 1] = <<"User query: ">> \o last.message
            /\ (\E i \in 1..n : BlockKind(parts[i]) = 2) <=> TopThreeText # <<>>
            /\ (\E i \in 1..n : BlockKind(parts[i]) = 3) <=>
                  (last.context # <<>> /\ last.context[1] # <<>>)
            /\ \A i \in 1..n : BlockKind(parts[i]) = 3 =>
                  parts[i] = <<"Additional context:", "\n">> \o last.context[1]
            /\ (\E i \in 1..n : BlockKind(parts[i]) = 4) <=> PriorTurns # <<>>

\* A prompt with all six blocks.
Wit_C17_AllBlocks ==
    /\ last.op = "chat"
    /\ Len(last.prompt_parts) = 6
    /\ BlockKind(last.prompt_parts[2]) = 2
    /\ BlockKind(last.prompt_parts[3]) = 3
    /\ BlockKind(last.prompt_parts[4]) = 4

\* C18: with no knowledge index configured, query_knowledge_base returns the
\* empty list and no call reaches the retrieval endpoint; with one configured,
\* one call is issued and the retrieved-context block of the chat prompt is
\* the text of the first 3 retrieved passages (of all when fewer), in the
\* order the endpoint returned them.
Thm_C18_TopThreePassages ==
    (last.op = "chat" /\ last.prompt_parts # <<>>) =>
        /\ knowledge_base_id = None =>
              /\ last.retrieve_calls = 0
              /\ last.kb_returned = <<>>
              /\ PartsHeaded("Relevant knowledge base context:") = {}
        /\ knowledge_base_id # None =>
              /\ last.retrieve_calls = 1
              /\ Cardinality(PartsHeaded("Relevant knowledge base context:")) <= 1
              /\ \A i \in PartsHeaded("Relevant knowledge base context:") :
                    last.prompt_parts[i] =
                        <<"Relevant knowledge base context:", "\n">> \o TopThreeText
              /\ TopThreeText # <<>> => PartsHeaded("Relevant knowledge base context:") # {}

\* A chat for which four passages were retrieved: the prompt carries the
\* first three.
Wit_C18_FourRetrieved ==
    /\ last.op = "chat"
    /\ Len(last.kb_returned) = 4
    /\ \E i \in PartsHeaded("Relevant knowledge base context:") :
          last.prompt_parts[i] =
              <<"Relevant knowledge base context:", "\n",
                "p", "1", "\n", "p", "2", "\n", "p", "3">>

\* C19: the summarize, quiz and knowledge-base-query routes leave the
\* conversation store as it is, whether they succeed or fail; a summarize or
\* quiz request issues exactly one generation call and no retrieval call, and
\* its prompt is made of the request's fields alone (nothing of a stored
\* conversation goes into it).
Thm_C19_StatelessRoutes ==
    [][(last'.op \in {"summarize", "quiz", "kb_query"}) =>
         /\ conversations' = conversations
         /\ last'.conversation_id = None
         /\ last'.op \in {"summarize", "quiz"} =>
               /\ last'.generate_calls = 1
               /\ last'.retrieve_calls = 0
               /\ last'.status = (IF last'.generate_failed THEN 500 ELSE 200)
               /\ \A i \in 1..Len(last'.prompt_parts[1]) :
                     last'.prompt_parts[1][i] \notin {"user", "assistant", "m1", "r1"}
         /\ last'.op = "kb_query" => last'.generate_calls = 0]_vars

\* A summarize request whose generation failed while the store held two
\* conversations, one of them with an unanswered user turn.
Wit_C19_FailedSummary ==
    /\ last.op = "summarize"
    /\ last.status = 500
    /\ last.generate_calls = 1
    /\ DOMAIN conversations = {"c1", "u1"}
    /\ Len(conversations["c1"]) = 1
    /\ Len(conversations["u1"]) = 2

\* C16 (as claimed): chat turns on the same conversation id are not mutually
\* excluded: while one request for an id is between its user turn and its
\* assistant turn, the server can take up another chat request for that id.
CX_C16_NotExcluded ==
    \A t \in Tasks, o \in Tasks :
        (InFlight(t) /\ tasks[o].pc = "idle" /\ tasks[t].conversation_id \in ClientIds)
            => ENABLED chat_begin(o, tasks[t].conversation_id)

\* C16 (amended): chat turns are serialised by the event loop: no request
\* runs while another one is between its first and its last statement, two
\* requests are never in flight together, no stored history holds two
\* assistant turns in a row, and a prompt's history block holds no user turn
\* of a request that has not returned.
Thm_C16_ChatTurnsSerialised ==
    /\ \A t \in Tasks : tasks[t].overlapped = {}
    /\ \A t \in Tasks, o \in Tasks : (InFlight(t) /\ InFlight(o)) => t = o
    /\ \A t \in Tasks : InFlight(t) => running = t
    /\ \A c \in DOMAIN conversations : \A i \in 1..(Len(conversations[c]) - 1) :
          ~(conversations[c][i].role = "assistant"
              /\ conversations[c][i + 1].role = "assistant")
    /\ \A t \in Tasks, o \in Tasks :
          (t # o /\ InFlight(o) /\ tasks[t].prompt_parts # <<>>) =>
              \A i \in 1..Len(tasks[t].prompt_parts) :
                  tasks[t].prompt_parts[i][1] = "Conversation history:" =>
                      \A j \in 1..Len(tasks[t].prompt_parts[i]) :
                          tasks[t].prompt_parts[i][j] # tasks[o].message[1]

\* Two answered chat requests for the same id: the second one's prompt shows
\* the first one's exchange, and the history alternates.
Wit_C16_TwoTurnsSameId ==
    /\ tasks["t1"].status = 200
    /\ tasks["t2"].status = 200
    /\ tasks["t1"].conversation_id = "c1"
    /\ tasks["t2"].conversation_id = "c1"
    /\ "c1" \in DOMAIN conversations
    /\ conversations["c1"] = <<UserTurn(<<"m1">>), AssistantTurn(<<"r1">>),
                               UserTurn(<<"m2">>), AssistantTurn(<<"r1">>)>>
    /\ \E i \in 1..Len(tasks["t2"].prompt_parts) :
          tasks["t2"].prompt_parts[i] =
              <<"Conversation history:", "\n", "user", ": ", "m1", "\n",
                "assistant", ": ", "r1">>

(***************************************************************************)
(* Properties of the Tool Bridge                                           *)
(***************************************************************************)
\* The request each tool that calls the HTTP Facade sends.
ToolRequest(tool) ==
    CASE tool = "chat_with_agent" -> <<"POST", "/chat">>
      [] tool = "summarize_text" -> <<"POST", "/summarize">>
      [] tool = "create_quiz" -> <<"POST", "/quiz">>
      [] tool = "query_knowledge_base" -> <<"POST", "/knowledge-base/query">>
      [] tool = "get_conversation" -> <<"GET", "/conversations/{conversation_id}">>
      [] tool = "check_system_health" -> <<"GET", "/health">>

\* C20 (as claimed): every tool, list_agent_modes included, issues one
\* outbound call to the HTTP Facade on each invocation and renders the reply
\* as text.
CX_C20_EveryToolCallsFacade ==
    bridge.tool # None =>
        /\ Len(bridge.requests) = 1
        /\ bridge.reply # "no_reply" => bridge.output = "text"

\* C20 (amended): chat_with_agent, summarize_text, create_quiz,
\* query_knowledge_base, get_conversation and check_system_health issue
\* exactly one outbound call to the HTTP Facade on each invocation, the
\* request of the tool, and render the facade's reply as text;
\* list_agent_modes issues no outbound call and returns a fixed text.
Thm_C20_OneCallPerTool ==
    bridge.tool # None =>
        IF bridge.tool = "list_agent_modes"
        THEN /\ bridge.requests = <<>>
             /\ bridge.output = "text"
             /\ bridge.opening = "**Available AI Agent Modes:**"
        ELSE /\ bridge.requests = <<ToolRequest(bridge.tool)>>
             /\ bridge.reply \in FacadeReplies
             /\ bridge.reply # "no_reply" => bridge.output = "text"
             /\ (bridge.reply = "no_reply" /\ bridge.tool # "get_conversation")
                   => bridge.output = "text"

\* get_conversation answered 404 by the facade: one GET, rendered as the
\* not-found text.
Wit_C20_NotFoundRendered ==
    /\ bridge.tool = "get_conversation"
    /\ bridge.reply = "404"
    /\ bridge.requests = << <<"GET", "/conversations/{conversation_id}">> >>
    /\ bridge.output = "text"
    /\ bridge.opening = "Conversation not found"

\* The positions of the retrieved items whose score is not below the threshold.
KeptPositions ==
    {i \in 1..Len(last.kb_returned) : ~(last.kb_returned[i].score < last.threshold)}

\* C10: the knowledge-base query route returns exactly the retrieved items
\* whose score is >= the confidence threshold, in their original order;
\* total_results is the number of retrieved items and filtered_results the
\* number of returned items.
Thm_C10_ConfidenceFilter ==
    (last.op = "kb_query") =>
        /\ Len(last.results) = Cardinality(KeptPositions)
        /\ \A i \in KeptPositions :
              last.results[Cardinality({j \in KeptPositions : j <= i})] = last.kb_returned[i]
        /\ last.total_results = Len(last.kb_returned)
        /\ last.filtered_results = Len(last.results)

\* A query in which an item below the threshold was dropped from between two
\* kept items, one of them scoring exactly the threshold.
Wit_C10_MixedScores ==
    /\ last.op = "kb_query"
    /\ Len(last.kb_returned) = 3
    /\ KeptPositions = {1, 3}
    /\ \E i \in KeptPositions : last.kb_returned[i].score = last.threshold
    /\ last.total_results = 3
    /\ last.filtered_results = 2

(***************************************************************************)
(* Properties of the conversation store                                    *)
(***************************************************************************)

\* The history alternates user, assistant, user, ... from a user turn.
Alternates(history) ==
    \A i \in 1..Len(history) :
        history[i].role = (IF i % 2 = 1 THEN "user" ELSE "assistant")

\* C24 (as claimed): with requests handled one after another, every stored
\* history alternates user, assistant, user, ... and a chat turn whose
\* generation call failed leaves no unanswered user turn behind.
CX_C24_HistoryAlternates ==
    /\ \A c \in DOMAIN conversations : Alternates(conversations[c])
    /\ (last.op = "chat" /\ last.status # 200 /\ last.conversation_id \in DOMAIN conversations)
          => LET history == conversations[last.conversation_id]
             IN  history = <<>> \/ history[Len(history)].role # "user"

\* Whether the sequence old is a prefix of the sequence new.
IsPrefix(old, new) ==
    /\ Len(old) <= Len(new)
    /\ \A i \in 1..Len(old) : new[i] = old[i]

\* C25: a stored history only grows at its end: across every request the old
\* history of a conversation that is still stored is a prefix of the new one;
\* and a request on one conversation id changes the history of no other id.
Thm_C25_AppendOnly ==
    [][ /\ \A c \in DOMAIN conversations \cap DOMAIN conversations' :
              IsPrefix(conversations[c], conversations'[c])
        /\ \A o \in ConvIds \ {last'.conversation_id} :
              /\ o \in DOMAIN conversations <=> o \in DOMAIN conversations'
              /\ o \in DOMAIN conversations => conversations'[o] = conversations[o]
        /\ last'.op = "delete" =>
              last'.conversation_id \notin DOMAIN conversations' ]_vars

\* A successful chat turn has just extended a conversation that already held
\* an exchange, while another conversation is stored beside it.
Wit_C25_ThirdAndFourthTurn ==
    /\ last.op = "chat"
    /\ last.status = 200
    /\ last.conversation_id \in DOMAIN conversations
    /\ Len(conversations[last.conversation_id]) = 4
    /\ \E c \in DOMAIN conversations \ {last.conversation_id} :
          Len(conversations[c]) >= 1

\* C26: a chat request that names a conversation id the store does not hold
\* (never used, or deleted) is not rejected: it creates a conversation under
\* exactly that id whose history starts with this request's user turn and
\* holds nothing older, and a successful response returns the same id.
Thm_C26_UnknownIdStartsFresh ==
    [][ (/\ last'.op = "chat"
         /\ last'.request_id \notin {None, ""}
         /\ last'.request_id \notin DOMAIN conversations)
        => /\ last'.status # 404
           /\ last'.conversation_id = last'.request_id
           /\ last'.request_id \in DOMAIN conversations'
           /\ conversations'[last'.request_id] =
                 IF last'.status = 200
                 THEN <<UserTurn(last'.message), AssistantTurn(last'.response)>>
                 ELSE <<UserTurn(last'.message)>> ]_vars

\* A successful chat has just created the conversation "c1" that the request
\* named, while another conversation is stored beside it.
Wit_C26_CreatedUnderRequestedId ==
    /\ last.op = "chat"
    /\ last.status = 200
    /\ last.request_id = "c1"
    /\ last.conversation_id = "c1"
    /\ "c1" \in DOMAIN conversations
    /\ Len(conversations["c1"]) = 2
    /\ \E c \in DOMAIN conversations \ {"c1"} : Len(conversations[c]) >= 1

\* C27: however a delete request is interleaved with a chat request on the
\* same conversation id, the chat never fails because its conversation is
\* missing: while the chat is in flight its conversation stays stored, and no
\* chat ends on the lookup error of a missing id.
Thm_C27_ChatNeverLosesConversation ==
    \A t \in Tasks :
        /\ ~tasks[t].key_error
        /\ InFlight(t) => tasks[t].conversation_id \in DOMAIN conversations
        /\ tasks[t].pc = "done" => tasks[t].status \in {200, 500}

\* A chat on "c1" is in flight right after a delete request removed the
\* conversation "c1" of an earlier chat: the chat in flight has created the
\* conversation again and holds the event loop.
Wit_C27_InFlightAfterDelete ==
    /\ last.op = "delete" /\ last.status = 200 /\ last.conversation_id = "c1"
    /\ \E t \in Tasks :
          /\ InFlight(t)
          /\ running = t
          /\ tasks[t].conversation_id = "c1"
          /\ conversations["c1"] = <<UserTurn(tasks[t].message)>>

(***************************************************************************)
(* Properties of the Tool Bridge's error handling                          *)
(***************************************************************************)

\* C30 (as claimed): every tool of the Tool Bridge returns a text for every
\* outcome of its call to the HTTP Facade and never ends with an exception;
\* get_conversation returns the text "Conversation not found" exactly when
\* the facade answered 404.
CX_C30_ToolsAlwaysReturnText ==
    bridge.tool # None =>
        /\ bridge.output = "text"
        /\ bridge.tool = "get_conversation" =>
              (bridge.opening = "Conversation not found" <=> bridge.reply = "404")

(***************************************************************************)
(* Properties of the debug routes and of the test harness                  *)
(***************************************************************************)

\* The error category of a subprocess outcome, where it has one of the four.
ErrorCategory(outcome) ==
    CASE outcome = "not_found" -> "not-found"
      [] outcome = "timeout" -> "timeout"
      [] outcome = "garbage" -> "malformed-reply"
      [] outcome \in {"spawn_failed", "not_an_object"} -> "generic"
      [] OTHER -> None

\* The string of an answer that names the outcome: mcp_server_status where
\* the answer has one, the error text otherwise.
StatusString(reply) ==
    IF reply.mcp_server_status # None THEN reply.mcp_server_status ELSE reply.error

DebugRoutes == {"test_mcp_connection", "test_mcp_tool"}

\* C21 (as claimed): on both debug routes a subprocess error is never raised
\* to the caller, and the four categories not-found, timeout, malformed-reply
\* and generic are each reported with a status string distinct from the
\* others: two requests to one route whose errors fall in different
\* categories are answered with different status strings.
CX_C21_CategoriesDistinct ==
    debug.route \in DebugRoutes =>
        /\ ~debug.raised
        /\ (/\ debug.previous.route = debug.route
            /\ ErrorCategory(debug.outcome) # None
            /\ ErrorCategory(debug.previous.outcome) # None
            /\ ErrorCategory(debug.outcome) # ErrorCategory(debug.previous.outcome))
           => StatusString(debug.reply) # StatusString(debug.previous.reply)

\* C22: when a subprocess call of a debug route times out, the spawned
\* process has been killed when the route returns its timeout answer; no
\* route returns while its process still runs.
Thm_C22_TimeoutKills ==
    /\ debug.process # "running"
    /\ debug.sample_process # "running"
    /\ (debug.route # None /\ debug.outcome = "timeout") =>
          /\ debug.process = "killed"
          /\ debug.reply.status = "error"
          /\ debug.reply.error \in {"FastMCP server did not respond within 10 seconds",
                                    "Tool execution timed out"}
    /\ debug.sample_outcome = "timeout" =>
          /\ debug.sample_process = "killed"
          /\ debug.sample_tool_test = <<[NoReport EXCEPT !.status = "error",
                                            !.error = "Tool execution timed out"]>>
    /\ debug.process = "killed" => debug.outcome = "timeout"

\* The tool route has answered a timed-out call after the connection route
\* answered one: both killed their process.
Wit_C22_BothRoutesTimedOut ==
    /\ debug.route = "test_mcp_tool"
    /\ debug.outcome = "timeout"
    /\ debug.process = "killed"
    /\ debug.reply.error = "Tool execution timed out"
    /\ debug.previous.route = "test_mcp_connection"
    /\ debug.previous.outcome = "timeout"
    /\ debug.previous.reply.mcp_server_status = "timeout"

\* C28 (as claimed): the status route runs the sample tool probe only when
\* the connection probe returned status success, and reports overall_status
\* "healthy" with integration_working true only if both probes returned
\* status success.
CX_C28_HealthyOnlyIfBothSucceed ==
    debug.route = "mcp_status" =>
        /\ debug.sample_tool_test # <<>> => debug.reply.status = "success"
        /\ (debug.overall_status = "healthy" /\ debug.integration_working) =>
              /\ debug.reply.status = "success"
              /\ debug.sample_tool_test # <<>>
              /\ debug.sample_tool_test[1].status = "success"

\* The probes of a run in the order of run_comprehensive_test.
ProbeOrder == <<"backend_health", "mcp_connection">> \o tools_to_test \o <<"full_integration">>

\* C29 (as claimed): the harness runs its probes in a gated order: the MCP
\* connection probe only if the backend's health check reported a working
\* generation-endpoint connection, and the tool probes and the
\* full-integration probe only if the MCP connection probe returned success.
CX_C29_GatedOrder ==
    /\ Len(harness.probes) <= Len(ProbeOrder)
    /\ harness.probes = SubSeq(ProbeOrder, 1, Len(harness.probes))
    /\ Len(harness.probes) >= 2 =>
          /\ harness.backend_result.details.status = "healthy"
          /\ harness.backend_result.details.bedrock_connection = "OK"
    /\ Len(harness.probes) >= 3 => harness.mcp_result.status = "success"

====
